---- MODULE Spec2Model ----
(***************************************************************************)
(* Verification model of the md2letter conversion pipeline                 *)
(* (convert/src): block splitter, block categoriser, block parsers with    *)
(* the inline text tokeniser, transformer and serialiser.                  *)
(*                                                                         *)
(* Strings are sequences of one-character strings, so that every scan of   *)
(* the source is modelled character by character as the code performs it.  *)
(***************************************************************************)
EXTENDS Integers, Sequences, FiniteSets, TLC

VARIABLES
    pc,            \* position of the driver of the component under check
    splitter,      \* BlockSplitter: reader, unread_chars_buffer, positions
    locals,        \* local variables of the running BlockSplitter::next call
    blocks,        \* SplitterBlocks yielded so far
    first_blocks,  \* blocks of the first pass, kept for the re-split
    pass,          \* 1: splitting the input, 2: splitting the joined blocks
    tokenizer,     \* parser::text::Tokenizer of the running TextParser
    tokens,        \* tokens the tokenizer has returned so far
    text_tree,     \* TextTree built by TextParser::parse
    parent_node_id_stack,  \* local stack of TextParser::parse
    parse_result,  \* value returned by TextParser::parse
    source,        \* the characters the reader given to convert yields
    item,          \* the item travelling through the iterator chain of convert
    collect_state, \* the Vec and the residual error of the running collect
    blocks_result, \* value of blocks_result in convert once collect is done
    convert_result,  \* value returned by convert
    parsed_blocks, \* the blocks handed to transform
    block_index,   \* number of blocks transform_blocks has consumed
    script_tree,   \* LetterScriptTree built by transform
    node_stack,    \* node_stack of transform_blocks
    block_src,     \* source of the block given to the block parser under check
    block_locals,  \* local variables of the running parse call of that parser
    block_result   \* outcome of the parse call once it has ended

splitVars == <<splitter, locals, blocks, first_blocks, pass>>
textVars == <<tokenizer, tokens, text_tree, parent_node_id_stack, parse_result>>
convVars == <<source, item, collect_state, blocks_result, convert_result>>
transVars == <<parsed_blocks, block_index, script_tree, node_stack>>
blockVars == <<block_src, block_locals, block_result>>
vars == <<pc, splitVars, textVars, convVars, transVars, blockVars>>

(***************************************************************************)
(* Bounds                                                                  *)
(***************************************************************************)
MaxSplitLen == 6
MaxResplitLen == 7

SeqsUpTo(S, n) == UNION {[1..k -> S] : k \in 0..n}

\* The grave accent (U+0060); every other character stands for itself.
Backtick == "GRAVE"

SplitAlphabet == {" ", "\n", "\r", Backtick, "x"}
ResplitAlphabet == {" ", "\n", Backtick, "x"}

(***************************************************************************)
(* Option values and string helpers (Rust std)                             *)
(***************************************************************************)
None == [some |-> FALSE]
Some(v) == [some |-> TRUE, value |-> v]

\* char::is_whitespace restricted to the characters of the model
IsWhitespace(c) == c \in {" ", "\t", "\n", "\r"}

RECURSIVE TrimStart(_)
TrimStart(s) ==
    IF s # <<>> /\ IsWhitespace(Head(s)) THEN TrimStart(Tail(s)) ELSE s

RECURSIVE TrimEnd(_)
TrimEnd(s) ==
    IF s # <<>> /\ IsWhitespace(s[Len(s)])
    THEN TrimEnd(SubSeq(s, 1, Len(s) - 1))
    ELSE s

Trim(s) == TrimEnd(TrimStart(s))

(***************************************************************************)
(* util: SourcePosition, SourceSpan                                        *)
(***************************************************************************)
SourcePosition_new(line, column) == [line |-> line, column |-> column]
SourcePosition_zero == [line |-> 1, column |-> 1]
SourceSpan_new(start, end) == [start |-> start, end |-> end]

(***************************************************************************)
(* splitter: BlockSplitter                                                 *)
(***************************************************************************)
SplitterBlock_new(src, span) == [src |-> src, span |-> span]

BlockSplitter_new(reader) ==
    [reader |-> reader,
     unread_chars_buffer |-> <<>>,
     last_char_source_position |-> SourcePosition_zero,
     next_char_source_position |-> SourcePosition_zero]

\* Result: the splitter after the read and the character read (None at EOF).
RECURSIVE read_next_char(_)
read_next_char(s) ==
    LET from_unread == s.unread_chars_buffer # <<>>
        update_source_position == ~from_unread
        next_char ==
            IF from_unread THEN Some(Head(s.unread_chars_buffer))
            ELSE IF s.reader # <<>> THEN Some(Head(s.reader))
            ELSE None
        s1 == IF from_unread THEN [s EXCEPT !.unread_chars_buffer = Tail(@)]
              ELSE IF s.reader # <<>> THEN [s EXCEPT !.reader = Tail(@)]
              ELSE s
    IN  IF ~next_char.some THEN [splitter |-> s1, char |-> None]
        ELSE IF next_char.value = "\r" THEN read_next_char(s1)
        ELSE [splitter |->
                IF update_source_position
                THEN [s1 EXCEPT
                        !.last_char_source_position = s1.next_char_source_position,
                        !.next_char_source_position =
                            IF next_char.value = "\n"
                            THEN [line |-> @.line + 1, column |-> 1]
                            ELSE [@ EXCEPT !.column = @ + 1]]
                ELSE s1,
              char |-> next_char]

push_unread_char(s, c) ==
    [s EXCEPT !.unread_chars_buffer = Append(@, c)]

\* The local variables of BlockSplitter::next as they are set on entry.
next_entry(s) ==
    [start_position |-> s.last_char_source_position,
     end_position |-> s.next_char_source_position,
     buffer |-> <<>>,
     newline_count |-> 0,
     consecutive_backtick_counter |-> 0,
     in_code_block |-> FALSE]

\* count_backtick without the condition on where the backtick stands.
count_backtick_anywhere(l, c) ==
    IF c = Backtick
    THEN IF l.consecutive_backtick_counter + 1 = 3
         THEN [l EXCEPT !.in_code_block = ~@,
                        !.consecutive_backtick_counter = 0]
         ELSE [l EXCEPT !.consecutive_backtick_counter = @ + 1]
    ELSE [l EXCEPT !.consecutive_backtick_counter = 0]

\* The backtick arm of the loop of BlockSplitter::next.
count_backtick(l, c) ==
    IF c = Backtick
    THEN IF l.buffer = <<>> \/ l.consecutive_backtick_counter > 0 \/ l.in_code_block
         THEN IF l.consecutive_backtick_counter + 1 = 3
              THEN [l EXCEPT !.in_code_block = ~@,
                             !.consecutive_backtick_counter = 0]
              ELSE [l EXCEPT !.consecutive_backtick_counter = @ + 1]
         ELSE l
    ELSE [l EXCEPT !.consecutive_backtick_counter = 0]

\* The block flushed when the reader is exhausted.
flush_at_eof(l) ==
    IF l.buffer = <<>>
    THEN None
    ELSE Some(SplitterBlock_new(l.buffer,
                                SourceSpan_new(l.start_position, l.end_position)))

\* The block returned at a block boundary.
block_at_boundary(l) ==
    Some(SplitterBlock_new(Trim(l.buffer),
                           SourceSpan_new(l.start_position, l.end_position)))

\* One iteration of the loop of BlockSplitter::next.  returned says whether
\* the call returns in this iteration, item is the value it returns.
next_iteration(s, l) ==
    LET r == read_next_char(s)
        s1 == r.splitter
        c == r.char.value
    IN  IF ~r.char.some
        THEN [splitter |-> s1, locals |-> l, returned |-> TRUE,
              item |-> flush_at_eof(l)]
        ELSE IF c = "\r"
        THEN [splitter |-> s1, locals |-> l, returned |-> FALSE, item |-> None]
        ELSE IF c = "\n"
        THEN [splitter |-> s1,
              locals |-> [l EXCEPT !.newline_count = @ + 1,
                                   !.buffer = Append(@, c)],
              returned |-> FALSE, item |-> None]
        ELSE IF c \in {" ", "\t"}
        THEN [splitter |-> s1,
              locals |-> [l EXCEPT !.buffer = Append(@, c)],
              returned |-> FALSE, item |-> None]
        ELSE IF l.newline_count >= 2 /\ ~l.in_code_block
        THEN [splitter |-> push_unread_char(s1, c), locals |-> l,
              returned |-> TRUE, item |-> block_at_boundary(l)]
        ELSE [splitter |-> s1,
              locals |-> [count_backtick(l, c) EXCEPT
                            !.newline_count = 0,
                            !.end_position = s1.next_char_source_position,
                            !.buffer = Append(@, c)],
              returned |-> FALSE, item |-> None]

\* A whole call of BlockSplitter::next: the splitter after it and its result.
RECURSIVE next_loop(_, _)
next_loop(s, l) ==
    LET it == next_iteration(s, l)
    IN  IF it.returned
        THEN [splitter |-> it.splitter, item |-> it.item]
        ELSE next_loop(it.splitter, it.locals)

BlockSplitter_next(s) == next_loop(s, next_entry(s))

(***************************************************************************)
(* Driver of the splitter: the caller pulls blocks until None.  One step   *)
(* is one iteration of the loop of next; a returned block is recorded and  *)
(* the next call is entered.                                               *)
(***************************************************************************)
\* The components that are not running.
TextIdle ==
    /\ tokenizer = None
    /\ tokens = <<>>
    /\ text_tree = None
    /\ parent_node_id_stack = <<>>
    /\ parse_result = None

SplitIdle ==
    /\ splitter = None
    /\ locals = None
    /\ blocks = <<>>
    /\ first_blocks = <<>>
    /\ pass = 0

ConvertIdle ==
    /\ source = <<>>
    /\ item = None
    /\ collect_state = None
    /\ blocks_result = None
    /\ convert_result = None

TransformIdle ==
    /\ parsed_blocks = <<>>
    /\ block_index = 0
    /\ script_tree = None
    /\ node_stack = <<>>

BlockIdle ==
    /\ block_src = <<>>
    /\ block_locals = None
    /\ block_result = None

RECURSIVE JoinBlocks(_)
JoinBlocks(bs) ==
    IF bs = <<>> THEN <<>>
    ELSE IF Len(bs) = 1 THEN bs[1].src
    ELSE bs[1].src \o <<"\n", "\n">> \o JoinBlocks(Tail(bs))

SplitInit(inputs) ==
    /\ pc = "split"
    /\ \E src \in inputs :
          /\ splitter = BlockSplitter_new(src)
          /\ locals = next_entry(BlockSplitter_new(src))
    /\ blocks = <<>>
    /\ first_blocks = <<>>
    /\ pass = 1
    /\ TextIdle
    /\ ConvertIdle
    /\ TransformIdle
    /\ BlockIdle

SplitterRead ==
    /\ pc = "split"
    /\ LET it == next_iteration(splitter, locals)
       IN  /\ ~it.returned
           /\ splitter' = it.splitter
           /\ locals' = it.locals
    /\ UNCHANGED <<pc, blocks, first_blocks, pass, textVars, convVars, transVars,
                   blockVars>>

SplitterYield ==
    /\ pc = "split"
    /\ LET it == next_iteration(splitter, locals)
       IN  /\ it.returned
           /\ it.item.some
           /\ splitter' = it.splitter
           /\ locals' = next_entry(it.splitter)
           /\ blocks' = Append(blocks, it.item.value)
    /\ UNCHANGED <<pc, first_blocks, pass, textVars, convVars, transVars, blockVars>>

SplitterEnd ==
    /\ pc = "split"
    /\ LET it == next_iteration(splitter, locals)
       IN  /\ it.returned
           /\ ~it.item.some
           /\ splitter' = it.splitter
    /\ pc' = "split_done"
    /\ UNCHANGED <<locals, blocks, first_blocks, pass, textVars, convVars, transVars,
                   blockVars>>

\* Join the emitted sources with one blank line and split the result again.
Resplit ==
    /\ pc = "split_done"
    /\ pass = 1
    /\ first_blocks' = blocks
    /\ blocks' = <<>>
    /\ splitter' = BlockSplitter_new(JoinBlocks(blocks))
    /\ locals' = next_entry(BlockSplitter_new(JoinBlocks(blocks)))
    /\ pass' = 2
    /\ pc' = "split"
    /\ UNCHANGED <<textVars, convVars, transVars, blockVars>>

SplitNext == SplitterRead \/ SplitterYield \/ SplitterEnd
SpecSplit == SplitInit(SeqsUpTo(SplitAlphabet, MaxSplitLen)) /\ [][SplitNext]_vars

ResplitNext == SplitterRead \/ SplitterYield \/ SplitterEnd \/ Resplit
SpecResplit ==
    SplitInit(SeqsUpTo(ResplitAlphabet, MaxResplitLen)) /\ [][ResplitNext]_vars

\* C7: re-splitting the joined block sources yields the identical sequence of
\* block sources.
C7_ResplitIdentical ==
    (pc = "split_done" /\ pass = 2) =>
        [i \in 1..Len(blocks) |-> blocks[i].src]
            = [i \in 1..Len(first_blocks) |-> first_blocks[i].src]

\* C8: every emitted Raw Block contains at least one non-whitespace character.
C8_BlocksNonBlank ==
    \A i \in 1..Len(blocks) :
        \E j \in 1..Len(blocks[i].src) : ~IsWhitespace(blocks[i].src[j])

\* C10: no emitted Raw Block has leading or trailing whitespace.
C10_BlocksTrimmed ==
    \A i \in 1..Len(blocks) : blocks[i].src = Trim(blocks[i].src)

(***************************************************************************)
(* Fences and block boundaries, read off the characters of the block       *)
(***************************************************************************)
NoWhitespace(s) == SelectSeq(s, LAMBDA c : ~IsWhitespace(c))

IsFenceAt(s, i) ==
    /\ i + 2 <= Len(s)
    /\ s[i] = Backtick /\ s[i + 1] = Backtick /\ s[i + 2] = Backtick

HasFence(s) == \E i \in 1..Len(s) : IsFenceAt(s, i)

\* Number of disjoint occurrences of three consecutive backticks in s.
RECURSIVE FenceCount(_)
FenceCount(s) ==
    IF Len(s) < 3 THEN 0
    ELSE IF IsFenceAt(s, 1) THEN 1 + FenceCount(SubSeq(s, 4, Len(s)))
    ELSE FenceCount(Tail(s))

\* The block opens with a fence (its backticks separated by nothing but
\* whitespace, the first one being the first character of the block) and no
\* later fence has closed it.
FenceOpen(buffer) ==
    /\ buffer # <<>>
    /\ buffer[1] = Backtick
    /\ LET w == NoWhitespace(buffer)
       IN  /\ IsFenceAt(w, 1)
           /\ ~HasFence(SubSeq(w, 4, Len(w)))

\* Line terminators in the whitespace that ends s.
RECURSIVE TrailingNewlines(_)
TrailingNewlines(s) ==
    IF s = <<>> \/ ~IsWhitespace(s[Len(s)]) THEN 0
    ELSE (IF s[Len(s)] = "\n" THEN 1 ELSE 0)
            + TrailingNewlines(SubSeq(s, 1, Len(s) - 1))

\* The next character the loop of next will see is not whitespace.
NonWhitespaceAhead ==
    LET r == read_next_char(splitter)
    IN  r.char.some /\ ~IsWhitespace(r.char.value)

\* A non-whitespace character ends the block exactly when two or more line
\* terminators precede it and the in-code-block flag is not set.
BoundaryExactlyOutsideCode ==
    (pc = "split" /\ NonWhitespaceAhead) =>
        ((blocks' # blocks) <=>
            (TrailingNewlines(locals.buffer) >= 2 /\ ~locals.in_code_block))

MAX_SOURCE_POSITION_UPDATE_HISTORY_SIZE == 100

FutureToken(token_kind, offset) == [token_kind |-> token_kind, offset |-> offset]

Tokenizer_new(src, span) ==
    [src |-> src,
     offset |-> 0,
     offset_source_position |-> span.start,
     source_position_update_history |-> <<>>,
     is_in_code_emphasis |-> FALSE,
     next_token_is_code_emphasis |-> FALSE,
     future_closing_formatting_tokens |-> <<>>,
     is_initialized |-> FALSE,
     panicked |-> FALSE]

\* src.chars().nth(offset)
read_at(t, offset) ==
    IF offset >= 0 /\ offset < Len(t.src) THEN Some(t.src[offset + 1]) ELSE None

look_ahead(t, count) == read_at(t, t.offset + count)

\* read_next that advances without recording a source-position update.
RECURSIVE read_next_without_history(_)
read_next_without_history(t) ==
    LET t1 == IF ~t.is_initialized
              THEN [t EXCEPT !.is_initialized = TRUE]
              ELSE [t EXCEPT !.offset = @ + 1]
        next_char == read_at(t1, t1.offset)
        c == next_char.value
    IN  IF ~next_char.some THEN [tokenizer |-> t1, char |-> None]
        ELSE IF c = "\r" THEN read_next_without_history(t1)
        ELSE [tokenizer |->
                IF c = "\n"
                THEN [t1 EXCEPT !.offset_source_position =
                                    [line |-> @.line + 1, column |-> 1]]
                ELSE [t1 EXCEPT !.offset_source_position.column = @ + 1],
              char |-> next_char]

\* Result: the tokenizer after the read and the character read.
RECURSIVE read_next(_)
read_next(t) ==
    LET t1 == IF ~t.is_initialized
              THEN [t EXCEPT !.is_initialized = TRUE]
              ELSE [t EXCEPT !.offset = @ + 1]
        next_char == read_at(t1, t1.offset)
        c == next_char.value
        pushed ==
            IF c = "\n"
            THEN [t1 EXCEPT
                    !.source_position_update_history =
                        <<[update |-> "NewLine",
                           old_column |-> t1.offset_source_position.column]>> \o @,
                    !.offset_source_position =
                        [line |-> @.line + 1, column |-> 1]]
            ELSE [t1 EXCEPT
                    !.source_position_update_history =
                        <<[update |-> "Column"]>> \o @,
                    !.offset_source_position.column = @ + 1]
    IN  IF ~next_char.some THEN [tokenizer |-> t1, char |-> None]
        ELSE IF c = "\r"
        THEN read_next([t1 EXCEPT !.source_position_update_history =
                                        <<[update |-> "Ignore"]>> \o @])
        ELSE [tokenizer |->
                IF Len(pushed.source_position_update_history)
                        > MAX_SOURCE_POSITION_UPDATE_HISTORY_SIZE
                THEN [pushed EXCEPT !.source_position_update_history =
                                        SubSeq(@, 1, Len(@) - 1)]
                ELSE pushed,
              char |-> next_char]

\* panicked records the panic on an empty history and the underflow of offset.
mark_char_as_unconsumed(t) ==
    IF t.offset = 0 \/ t.source_position_update_history = <<>>
    THEN [t EXCEPT !.panicked = TRUE]
    ELSE LET update == Head(t.source_position_update_history)
             t1 == [t EXCEPT !.offset = @ - 1,
                             !.source_position_update_history = Tail(@)]
         IN  IF update.update = "NewLine"
             THEN [t1 EXCEPT !.offset_source_position =
                                [line |-> @.line - 1,
                                 column |-> update.old_column]]
             ELSE IF update.update = "Column"
             THEN [t1 EXCEPT !.offset_source_position.column = @ - 1]
             ELSE t1

RECURSIVE ignore_next_chars(_, _)
ignore_next_chars(t, count) ==
    IF count <= 0 THEN t
    ELSE ignore_next_chars(read_next(t).tokenizer, count - 1)

RECURSIVE find_next_char_matching(_, _, _)
find_next_char_matching(t, c, start_at) ==
    LET next_char == look_ahead(t, start_at + 1)
    IN  IF ~next_char.some THEN None
        ELSE IF next_char.value = c THEN Some(start_at)
        ELSE find_next_char_matching(t, c, start_at + 1)

\* Vec::insert
Insert(v, index, element) ==
    SubSeq(v, 1, index) \o <<element>> \o SubSeq(v, index + 1, Len(v))

\* The star arm of the loop of find_formatting_pair, for a star that is not
\* escaped.  st holds the local variables of the function; returned says
\* whether the function returns Some(st.result) in this arm.
find_formatting_pair_star(t, st) ==
    LET count == st.count
    IN
    IF st.is_italic /\ st.is_bold
    THEN LET next_char_1 == look_ahead(t, count + 2)
             next_char_2 == look_ahead(t, count + 3)
         IN  IF next_char_1 = Some("*")
             THEN LET count1 == count + 1
                  IN  IF next_char_2 = Some("*")
                      THEN [st EXCEPT
                              !.is_bold = FALSE,
                              !.count = count1,
                              !.returned = TRUE,
                              !.result =
                                  CASE st.precedence = "Bold" ->
                                         @ \o <<FutureToken("ItalicEnd", t.offset + count1),
                                                FutureToken("BoldEnd", t.offset + count1 + 1)>>
                                    [] st.precedence = "Italic" ->
                                         @ \o <<FutureToken("BoldEnd", t.offset + count1 + 1),
                                                FutureToken("ItalicEnd", t.offset + count1 + 2)>>
                                    [] OTHER ->
                                         Insert(Append(@, FutureToken("BoldEnd", t.offset + count1 + 1)),
                                                0, FutureToken("ItalicStart", t.offset))
                                            \o <<FutureToken("ItalicEnd", t.offset + count1 + 2)>>]
                      ELSE LET pushed == Append(st.result,
                                                FutureToken("BoldEnd", t.offset + count1))
                           IN  IF st.precedence = "None"
                               THEN [st EXCEPT
                                       !.is_bold = FALSE,
                                       !.count = count1,
                                       !.result =
                                           Insert(Insert(pushed, 0,
                                                         FutureToken("ItalicStart", t.offset)),
                                                  1, FutureToken("BoldStart", t.offset + 2)),
                                       !.precedence = "Italic"]
                               ELSE [st EXCEPT
                                       !.is_bold = FALSE,
                                       !.count = count1,
                                       !.result = pushed]
             ELSE LET pushed == Append(st.result,
                                       FutureToken("ItalicEnd", t.offset + count + 1))
                  IN  IF st.precedence = "None"
                      THEN [st EXCEPT
                              !.is_italic = FALSE,
                              !.result =
                                  Insert(Insert(pushed, 0,
                                                FutureToken("BoldStart", t.offset)),
                                         1, FutureToken("ItalicStart", t.offset + 2)),
                              !.precedence = "Bold"]
                      ELSE [st EXCEPT !.is_italic = FALSE, !.result = pushed]
    ELSE IF st.is_italic
    THEN LET is_bold_opening == look_ahead(t, count + 2) = Some("*")
         IN  IF is_bold_opening
             THEN [st EXCEPT
                     !.is_bold = TRUE,
                     !.count = count + 1,
                     !.result = Append(@, FutureToken("BoldStart",
                                                      t.offset + (count + 1) + 1))]
             ELSE [st EXCEPT
                     !.result = Append(@, FutureToken("ItalicEnd",
                                                      t.offset + count + 1)),
                     !.returned = TRUE]
    ELSE IF st.is_bold
    THEN LET char_after_next == look_ahead(t, count + 2)
             is_italic_opening ==
                 IF char_after_next.some THEN char_after_next.value # "*" ELSE TRUE
         IN  IF is_italic_opening
             THEN [st EXCEPT
                     !.is_italic = TRUE,
                     !.result = Append(@, FutureToken("ItalicStart",
                                                      t.offset + count + 1))]
             ELSE [st EXCEPT
                     !.result = Append(@, FutureToken("BoldEnd",
                                                      t.offset + count + 1)),
                     !.returned = TRUE]
    ELSE st

\* The while loop of find_formatting_pair.
RECURSIVE find_formatting_pair_loop(_, _)
find_formatting_pair_loop(t, st) ==
    LET next == look_ahead(t, st.count + 1)
        next_char == next.value
    IN  IF ~next.some THEN None
        ELSE IF st.in_code_emphasis
        THEN find_formatting_pair_loop(t,
                [st EXCEPT !.in_code_emphasis = (next_char # Backtick),
                           !.count = @ + 1])
        ELSE IF next_char = "\\"
        THEN find_formatting_pair_loop(t,
                [st EXCEPT !.ignore_next_star = TRUE, !.count = @ + 1])
        ELSE IF next_char = Backtick
        THEN find_formatting_pair_loop(t,
                [st EXCEPT
                    !.in_code_emphasis =
                        find_next_char_matching(t, Backtick, st.count + 1).some,
                    !.count = @ + 1])
        ELSE IF next_char = "*"
        THEN IF st.ignore_next_star
             THEN find_formatting_pair_loop(t,
                     [st EXCEPT !.ignore_next_star = FALSE, !.count = @ + 1])
             ELSE LET st1 == find_formatting_pair_star(t, st)
                  IN  IF st1.returned THEN Some(st1.result)
                      ELSE find_formatting_pair_loop(t,
                              [st1 EXCEPT !.count = @ + 1])
        ELSE find_formatting_pair_loop(t,
                [st EXCEPT !.ignore_next_star = FALSE, !.count = @ + 1])

find_formatting_pair(t) ==
    LET next_char_1 == look_ahead(t, 1)
        next_char_2 == look_ahead(t, 2)
        is_bold == next_char_1 = Some("*")
        is_italic == ~(is_bold /\ next_char_2.value # "*")
        st == [is_italic |-> is_italic,
               is_bold |-> is_bold,
               in_code_emphasis |-> FALSE,
               result |->
                   IF is_bold /\ is_italic THEN <<>>
                   ELSE IF is_bold THEN <<FutureToken("BoldStart", t.offset)>>
                   ELSE <<FutureToken("ItalicStart", t.offset)>>,
               precedence |->
                   IF is_bold /\ is_italic THEN "None"
                   ELSE IF is_bold THEN "Bold"
                   ELSE "Italic",
               count |-> 2,
               ignore_next_star |-> FALSE,
               returned |-> FALSE]
    IN  IF ~next_char_1.some \/ ~next_char_2.some THEN None
        ELSE find_formatting_pair_loop(t, st)

(***************************************************************************)
(* parser::text::token: Token, TokenKind                                   *)
(***************************************************************************)
Token_new(kind, span) == [kind |-> kind, span |-> span]

Text(src) == [name |-> "Text", src |-> src]
Link(label, target) == [name |-> "Link", label |-> label, target |-> target]
Image(label, src) == [name |-> "Image", label |-> label, src |-> src]
Function(name, parameters) ==
    [name |-> "Function", function_name |-> name, parameters |-> parameters]
Error(message, source_position) ==
    [name |-> "Error", message |-> message, source_position |-> source_position]
Formatting(name) == [name |-> name]

\* HashMap::new and HashMap::insert
HashMap_new == [k \in {} |-> <<>>]
HashMap_insert(m, key, value) ==
    [k \in DOMAIN m \cup {key} |-> IF k = key THEN value ELSE m[k]]

(***************************************************************************)
(* Tokenizer::next                                                         *)
(***************************************************************************)
\* The loops that collect the characters up to a closing character: count
\* and the collected string when the loop is left.
RECURSIVE collect_until(_, _, _, _)
collect_until(t, count, closing, collected) ==
    LET next_char == look_ahead(t, count)
    IN  IF ~next_char.some \/ next_char.value = closing
        THEN [count |-> count, collected |-> collected]
        ELSE collect_until(t, count + 1, closing, Append(collected, next_char.value))

\* The parameter loop of the function arm: count and the parameters when the
\* loop is left.
RECURSIVE collect_parameters(_, _, _, _, _, _)
collect_parameters(t, count, parameters, parameter_name, parameter_value, is_in_arg_name) ==
    LET next == look_ahead(t, count)
        next_char == next.value
    IN  IF ~next.some THEN [count |-> count, parameters |-> parameters]
        ELSE IF next_char = ")"
        THEN [count |-> count,
              parameters |->
                  IF Trim(parameter_name) # <<>>
                  THEN HashMap_insert(parameters, Trim(parameter_name),
                                      Trim(parameter_value))
                  ELSE parameters]
        ELSE IF next_char = ","
        THEN collect_parameters(t, count + 1,
                 IF Trim(parameter_value) # <<>>
                 THEN HashMap_insert(parameters, Trim(parameter_name),
                                     Trim(parameter_value))
                 ELSE parameters,
                 <<>>, <<>>, TRUE)
        ELSE IF next_char = ":"
        THEN IF is_in_arg_name
             THEN collect_parameters(t, count + 1, parameters, parameter_name,
                                     parameter_value, FALSE)
             ELSE collect_parameters(t, count + 1, parameters, parameter_name,
                                     Append(parameter_value, next_char), FALSE)
        ELSE IF is_in_arg_name
        THEN collect_parameters(t, count + 1, parameters,
                                Append(parameter_name, next_char),
                                parameter_value, TRUE)
        ELSE collect_parameters(t, count + 1, parameters, parameter_name,
                                Append(parameter_value, next_char), FALSE)

\* return Some(Token::new(kind, SourceSpan::new(start_position, offset_source_position)))
return_token(t, start_position, kind) ==
    [tokenizer |-> t,
     item |-> Some(Token_new(kind,
                             SourceSpan_new(start_position,
                                            t.offset_source_position)))]

\* The text collected so far is returned and the special character is left
\* for the next call.
return_text_before(t, start_position, text_buffer) ==
    return_token(mark_char_as_unconsumed(t), start_position, Text(text_buffer))

\* The first future token registered for the offset, if any.
future_token_at(t, offset) ==
    LET found == SelectSeq(t.future_closing_formatting_tokens,
                           LAMBDA token : token.offset = offset)
    IN  IF found = <<>> THEN None ELSE Some(Head(found))

\* The star arm of Tokenizer::next; "continue" |-> TRUE says that the star
\* is pushed to the text buffer and the loop goes on.
next_star(t, start_position, text_buffer) ==
    LET offset == t.offset
        future == future_token_at(t, offset)
        pair == find_formatting_pair(t)
    IN  IF future.some
        THEN IF text_buffer # <<>>
             THEN return_text_before(t, start_position, text_buffer)
             ELSE LET t1 == [t EXCEPT !.future_closing_formatting_tokens =
                                SelectSeq(@, LAMBDA x : x.offset # offset)]
                      is_bold == future.value.token_kind = "BoldEnd"
                      t2 == IF is_bold THEN ignore_next_chars(t1, 1) ELSE t1
                  IN  return_token(t2, start_position,
                                   Formatting(future.value.token_kind))
        ELSE IF pair.some
        THEN IF text_buffer # <<>>
             THEN return_text_before(t, start_position, text_buffer)
             ELSE LET future_tokens == pair.value
                      is_bold == future_tokens[1].token_kind = "BoldStart"
                      t1 == [t EXCEPT !.future_closing_formatting_tokens =
                                @ \o Tail(future_tokens)]
                  IN  IF is_bold
                      THEN return_token(ignore_next_chars(t1, 1), start_position,
                                        Formatting("BoldStart"))
                      ELSE return_token(t1, start_position,
                                        Formatting("ItalicStart"))
        ELSE [continue |-> TRUE]

\* The backtick arm of Tokenizer::next.
next_backtick(t, start_position, text_buffer) ==
    IF text_buffer # <<>>
    THEN return_text_before(t, start_position, text_buffer)
    ELSE IF ~find_next_char_matching(t, Backtick, 0).some
    THEN return_token(t, start_position,
                      Error("Could not find closing backtick",
                            t.offset_source_position))
    ELSE return_token([t EXCEPT !.is_in_code_emphasis = TRUE], start_position,
                      Formatting("CodeStart"))

\* The hash arm of Tokenizer::next.
next_function(t, start_position, text_buffer) ==
    LET name == collect_until(t, 1, "(", <<>>)
        function_name == name.collected
        params == collect_parameters(t, name.count + 1, HashMap_new,
                                     <<>>, <<>>, TRUE)
    IN  IF function_name = <<>> THEN [continue |-> TRUE]
        ELSE IF text_buffer # <<>>
        THEN return_text_before(t, start_position, text_buffer)
        ELSE return_token(ignore_next_chars(t, params.count), start_position,
                          Function(function_name, params.parameters))

\* The label and address of a link or an image; label_at is the look-ahead
\* distance of the first character of the label.
bracketed(t, label_at) ==
    LET label == collect_until(t, label_at, "]", <<>>)
        is_opening_parenthesis == look_ahead(t, label.count + 1) = Some("(")
        address == collect_until(t, label.count + 2, ")", <<>>)
    IN  IF label.collected = <<>> THEN None
        ELSE IF ~is_opening_parenthesis THEN None
        ELSE IF address.collected = <<>> THEN None
        ELSE Some([label |-> label.collected,
                   address |-> address.collected,
                   count |-> address.count])

\* The exclamation mark arm of Tokenizer::next.
next_image(t, start_position, text_buffer) ==
    LET may_be_image == look_ahead(t, 1) = Some("[")
        found == bracketed(t, 2)
    IN  IF ~may_be_image THEN [continue |-> TRUE]
        ELSE IF ~found.some THEN [continue |-> TRUE]
        ELSE IF text_buffer # <<>>
        THEN return_text_before(t, start_position, text_buffer)
        ELSE return_token(ignore_next_chars(t, found.value.count), start_position,
                          Image(found.value.label, found.value.address))

\* The opening bracket arm of Tokenizer::next.
next_link(t, start_position, text_buffer) ==
    LET found == bracketed(t, 1)
    IN  IF ~found.some THEN [continue |-> TRUE]
        ELSE IF text_buffer # <<>>
        THEN return_text_before(t, start_position, text_buffer)
        ELSE return_token(ignore_next_chars(t, found.value.count), start_position,
                          Link(found.value.label, found.value.address))

\* One iteration of the loop of Tokenizer::next: the tokenizer and the item
\* returned, or, with continue, the tokenizer and the locals the next
\* iteration starts with.
Tokenizer_next_iteration(t0, start_position, text_buffer, treat_next_special_char_as_text) ==
    LET go_on(t, buffer, treat_next) ==
            [continue |-> TRUE, tokenizer |-> t, text_buffer |-> buffer,
             treat_next_special_char_as_text |-> treat_next]
        \* the arm of a special character has run
        after_arm(t, c, arm) ==
            IF "continue" \in DOMAIN arm
            THEN go_on(t, Append(text_buffer, c), FALSE)
            ELSE arm
        \* match next_char
        match_char(t, next_char) ==
            LET c == next_char.value
            IN  IF ~next_char.some
                THEN IF text_buffer = <<>>
                     THEN [tokenizer |-> t, item |-> None]
                     ELSE return_token(t, start_position, Text(text_buffer))
                ELSE IF treat_next_special_char_as_text
                THEN go_on(t, Append(text_buffer, c), FALSE)
                ELSE IF t.is_in_code_emphasis
                THEN IF t.next_token_is_code_emphasis
                     THEN return_token([t EXCEPT !.next_token_is_code_emphasis = FALSE,
                                                 !.is_in_code_emphasis = FALSE],
                                       start_position, Formatting("CodeEnd"))
                     ELSE IF c = Backtick
                     THEN return_text_before(
                              [t EXCEPT !.next_token_is_code_emphasis = TRUE],
                              start_position, text_buffer)
                     ELSE go_on(t, Append(text_buffer, c), FALSE)
                ELSE IF c = "\\"
                THEN go_on(t, text_buffer, TRUE)
                ELSE IF c \in {" ", "\t"}
                THEN go_on(t, Append(text_buffer, " "), FALSE)
                ELSE IF c = "\n"
                THEN go_on(t,
                           IF text_buffer # <<>> /\ text_buffer[Len(text_buffer)] = " "
                           THEN text_buffer
                           ELSE Append(text_buffer, " "),
                           FALSE)
                ELSE IF c \in {"#", "!", "[", "*", Backtick}
                THEN after_arm(t, c,
                         CASE c = "#" -> next_function(t, start_position, text_buffer)
                           [] c = "!" -> next_image(t, start_position, text_buffer)
                           [] c = "[" -> next_link(t, start_position, text_buffer)
                           [] c = "*" -> next_star(t, start_position, text_buffer)
                           [] c = Backtick ->
                                 next_backtick(t, start_position, text_buffer))
                ELSE IF c = "\r"
                THEN go_on(t, text_buffer, FALSE)
                ELSE go_on(t, Append(text_buffer, c), FALSE)
    IN  match_char(read_next(t0).tokenizer, read_next(t0).char)

\* The loop of Tokenizer::next: the tokenizer after the call and the item
\* returned.
RECURSIVE Tokenizer_next_loop(_, _, _, _)
Tokenizer_next_loop(t0, start_position, text_buffer, treat_next_special_char_as_text) ==
    LET looped(r) ==
            IF "continue" \in DOMAIN r
            THEN Tokenizer_next_loop(r.tokenizer, start_position, r.text_buffer,
                                     r.treat_next_special_char_as_text)
            ELSE r
    IN  looped(Tokenizer_next_iteration(t0, start_position, text_buffer,
                                        treat_next_special_char_as_text))

Tokenizer_next(t) ==
    Tokenizer_next_loop(t, t.offset_source_position, <<>>, FALSE)

\* All the tokens of a source, as the for loop of TextParser::parse sees them.
RECURSIVE Tokenize(_)
Tokenize(t) ==
    LET rest(r) == IF ~r.item.some \/ r.tokenizer.panicked THEN <<>>
                   ELSE <<r.item.value>> \o Tokenize(r.tokenizer)
    IN  rest(Tokenizer_next(t))

(***************************************************************************)
(* Result values (Rust std) and parser::result                             *)
(***************************************************************************)
Ok(v) == [ok |-> TRUE, value |-> v]
Err(e) == [ok |-> FALSE, error |-> e]

ParseError(message, source_position) ==
    [message |-> message, source_position |-> source_position]

ParsedBlock_new(kind, span) == [kind |-> kind, span |-> span]

(***************************************************************************)
(* util::IdGenerator and parser::block::text: TextTree                     *)
(***************************************************************************)
IdGenerator_new == [next_id |-> 0]

\* IdGenerator::next that does not advance next_id.
IdGenerator_next_stuck(g) == [generator |-> g, id |-> g.next_id]

\* Result: the generator after the call and the id handed out.
IdGenerator_next(g) == [generator |-> [g EXCEPT !.next_id = @ + 1], id |-> g.next_id]

TextNode_new(id, kind, span) ==
    [id |-> id, kind |-> kind, children |-> <<>>, span |-> span]

TextTree_new(span) ==
    LET g == IdGenerator_next(IdGenerator_new)
    IN  [nodes |-> (g.id :> TextNode_new(g.id, [name |-> "Root"], span)),
         root |-> g.id,
         node_id_generator |-> g.generator]

\* Result: the tree after the registration and the id of the new node.
TextTree_register_node(tree, parent_id, kind, span) ==
    LET g == IdGenerator_next(tree.node_id_generator)
        inserted == (g.id :> TextNode_new(g.id, kind, span)) @@ tree.nodes
    IN  [tree |-> [tree EXCEPT
                     !.node_id_generator = g.generator,
                     !.nodes = [inserted EXCEPT
                                  ![parent_id].children = Append(@, g.id)]],
         id |-> g.id]

(***************************************************************************)
(* parser::text: TextParser                                                *)
(***************************************************************************)
StartKinds == {"BoldStart", "ItalicStart", "CodeStart"}
EndKinds == {"BoldEnd", "ItalicEnd", "CodeEnd"}
LeafKinds == {"Text", "Link", "Image", "Function"}

\* The node kind a Start token opens.
node_kind_of(token_kind_name) ==
    CASE token_kind_name = "BoldStart" -> [name |-> "Bold"]
      [] token_kind_name = "ItalicStart" -> [name |-> "Italic"]
      [] token_kind_name = "CodeStart" -> [name |-> "Code"]

\* The state of TextParser::parse on entry: tree, stack, the value returned
\* (None while the loop runs) and whether the call has panicked.
TextParser_new(src, span) ==
    [tree |-> TextTree_new(span),
     parent_node_id_stack |-> <<TextTree_new(span).root>>,
     returned |-> None,
     panicked |-> FALSE]

\* Vec::pop
Pop(v) == IF v = <<>> THEN v ELSE SubSeq(v, 1, Len(v) - 1)

\* The body of the for loop of TextParser::parse for one token.
parse_token(p, token) ==
    LET parent_node_id == p.parent_node_id_stack[Len(p.parent_node_id_stack)]
        span == token.span
        kind == token.kind
        outer == TextTree_register_node(p.tree, parent_node_id,
                    CASE kind.name = "Link" -> [name |-> "Link", target |-> kind.target]
                      [] kind.name = "Image" -> [name |-> "Image", src |-> kind.src]
                      [] kind.name = "Text" -> [name |-> "Text", src |-> kind.src]
                      [] kind.name = "Function" ->
                            [name |-> "Function", function_name |-> kind.function_name,
                             parameters |-> kind.parameters]
                      [] kind.name \in StartKinds -> node_kind_of(kind.name)
                      [] OTHER -> [name |-> "Root"],
                    span)
    IN  IF p.parent_node_id_stack = <<>>
        THEN [p EXCEPT !.panicked = TRUE]
        ELSE IF kind.name = "Error"
        THEN [p EXCEPT !.returned =
                Some(Err(ParseError(kind.message, kind.source_position)))]
        ELSE IF kind.name \in {"Text", "Function"}
        THEN [p EXCEPT !.tree = outer.tree]
        ELSE IF kind.name \in {"Link", "Image"}
        THEN [p EXCEPT !.tree =
                TextTree_register_node(outer.tree, outer.id,
                    [name |-> "Text", src |-> kind.label], span).tree]
        ELSE IF kind.name \in StartKinds
        THEN [p EXCEPT !.tree = outer.tree,
                       !.parent_node_id_stack = Append(@, outer.id)]
        ELSE [p EXCEPT !.parent_node_id_stack = Pop(@)]

\* The value TextParser::parse returns when the tokenizer is exhausted.
parse_finish(p) ==
    [p EXCEPT !.returned =
        Some(Ok(ParsedBlock_new([name |-> "Text", tree |-> p.tree],
                                p.tree.nodes[p.tree.root].span)))]

\* A whole call of TextParser::parse from the state p with the tokenizer t.
RECURSIVE TextParser_parse_loop(_, _)
TextParser_parse_loop(t, p) ==
    LET go_on(r, p1) == IF p1.panicked \/ p1.returned.some THEN p1
                        ELSE TextParser_parse_loop(r.tokenizer, p1)
        for_token(r) == IF ~r.item.some THEN parse_finish(p)
                        ELSE go_on(r, parse_token(p, r.item.value))
    IN  for_token(Tokenizer_next(t))

TextParser_parse(src, span) ==
    TextParser_parse_loop(Tokenizer_new(src, span), TextParser_new(src, span))

(***************************************************************************)
(* Driver of the text parser: one step is one iteration of the for loop of *)
(* TextParser::parse, that is one call of Tokenizer::next and the match on *)
(* the token it returns.                                                   *)
(***************************************************************************)
TextAlphabet == {"*", Backtick, "\\", "a", " "}
BlockSpan == SourceSpan_new(SourcePosition_zero, SourcePosition_zero)

\* The running call of TextParser::parse, read off the variables.
parser_state ==
    [tree |-> text_tree,
     parent_node_id_stack |-> parent_node_id_stack,
     returned |-> parse_result,
     panicked |-> pc = "panicked"]

TextInit(inputs) ==
    /\ pc = "text"
    /\ \E src \in inputs : tokenizer = Tokenizer_new(src, BlockSpan)
    /\ tokens = <<>>
    /\ text_tree = TextParser_new(<<>>, BlockSpan).tree
    /\ parent_node_id_stack = TextParser_new(<<>>, BlockSpan).parent_node_id_stack
    /\ parse_result = None
    /\ SplitIdle
    /\ ConvertIdle
    /\ TransformIdle
    /\ BlockIdle

\* The loop body for a token of one of the given kinds.
ParseToken(kinds) ==
    /\ pc = "text"
    /\ \E r \in {Tokenizer_next(tokenizer)} :
          /\ r.item.some
          /\ r.item.value.kind.name \in kinds
          /\ tokenizer' = r.tokenizer
          /\ tokens' = Append(tokens, r.item.value)
          /\ \E p \in {parse_token(parser_state, r.item.value)} :
                /\ text_tree' = p.tree
                /\ parent_node_id_stack' = p.parent_node_id_stack
                /\ parse_result' = p.returned
                /\ pc' = IF p.panicked THEN "panicked"
                         ELSE IF p.returned.some THEN "text_done"
                         ELSE "text"
    /\ UNCHANGED <<splitVars, convVars, transVars, blockVars>>

ParseLeafToken == ParseToken(LeafKinds)
ParseStartToken == ParseToken(StartKinds)
ParseEndToken == ParseToken(EndKinds)
ParseErrorToken == ParseToken({"Error"})

\* The tokenizer is exhausted and parse returns the block.
ParseFinish ==
    /\ pc = "text"
    /\ \E r \in {Tokenizer_next(tokenizer)} :
          /\ ~r.item.some
          /\ tokenizer' = r.tokenizer
          /\ parse_result' = parse_finish(parser_state).returned
    /\ pc' = "text_done"
    /\ UNCHANGED <<tokens, text_tree, parent_node_id_stack, splitVars, convVars, transVars,
                   blockVars>>

TextNext ==
    \/ ParseLeafToken
    \/ ParseStartToken
    \/ ParseEndToken
    \/ ParseErrorToken
    \/ ParseFinish

MaxTextLen == 6
SpecText == TextInit(SeqsUpTo(TextAlphabet, MaxTextLen)) /\ [][TextNext]_vars

\* Number of tokens of the kind among the first n tokens emitted.
CountKind(kind_name, n) ==
    Cardinality({i \in 1..n : tokens[i].kind.name = kind_name})

FormattingKinds == {"Bold", "Italic", "Code"}
StartOf(f) == CASE f = "Bold" -> "BoldStart" [] f = "Italic" -> "ItalicStart"
                [] f = "Code" -> "CodeStart"
EndOf(f) == CASE f = "Bold" -> "BoldEnd" [] f = "Italic" -> "ItalicEnd"
              [] f = "Code" -> "CodeEnd"

\* C1: in the token sequence of a block, each formatting kind has as many
\* Start tokens as End tokens once the tokeniser is exhausted, and at no point
\* of the sequence more End tokens than Start tokens.
C1_StartEndBalanced ==
    \A f \in FormattingKinds :
        /\ \A n \in 0..Len(tokens) :
              CountKind(EndOf(f), n) <= CountKind(StartOf(f), n)
        /\ (pc = "text_done" /\ parse_result.some /\ parse_result.value.ok) =>
              CountKind(StartOf(f), Len(tokens)) = CountKind(EndOf(f), Len(tokens))

(***************************************************************************)
(* categorizer: BlockCategorizer                                           *)
(***************************************************************************)
CategorizedBlock_new(kind, src, span) == [kind |-> kind, src |-> src, span |-> span]

\* Number of leading characters of src equal to c.
RECURSIVE leading_count(_, _)
leading_count(src, c) ==
    IF src # <<>> /\ Head(src) = c THEN 1 + leading_count(Tail(src), c) ELSE 0

\* for c in src.chars().skip(counter) { counter += 1; if c == ch { break; } }
RECURSIVE scan_past(_, _, _)
scan_past(src, counter, ch) ==
    IF counter >= Len(src) THEN [counter |-> counter, found |-> FALSE]
    ELSE IF src[counter + 1] = ch THEN [counter |-> counter + 1, found |-> TRUE]
    ELSE scan_past(src, counter + 1, ch)

\* The characters from counter on are all in allowed.
only_chars_after(src, counter, allowed) ==
    \A i \in (counter + 1)..Len(src) : src[i] \in allowed

is_code_block(src) == leading_count(src, Backtick) >= 3

is_ordered_list(src) ==
    LET next_char_is_period == Len(src) >= 2 /\ src[2] = "."
        next_char_is_space == next_char_is_period /\ Len(src) >= 3 /\ src[3] = " "
    IN  next_char_is_period /\ next_char_is_space

is_unordered_list(src, char) == Len(src) >= 2 /\ src[2] = " "

is_horizontal_rule(src, char) ==
    LET counter == leading_count(src, char)
        is_possible_horizontal_rule == counter >= 3
    IN  IF is_possible_horizontal_rule /\ ~only_chars_after(src, counter, {" ", "\t"})
        THEN FALSE
        ELSE is_possible_horizontal_rule

is_image(src) ==
    LET bracket == scan_past(src, 2, "]")
        opening == scan_past(src, bracket.counter, "(")
        closing == scan_past(src, opening.counter, ")")
    IN  IF Len(src) < 2 \/ src[2] # "[" THEN FALSE
        ELSE IF ~only_chars_after(src, closing.counter, {" ", "\t", "\n"}) THEN FALSE
        ELSE closing.found

\* The loop of is_function_block that finds the function name; rejected says
\* that the function returns false inside the loop.
RECURSIVE find_function_name(_, _, _)
find_function_name(src, counter, has_name) ==
    IF counter >= Len(src)
    THEN [counter |-> counter, anticipate_params |-> FALSE, rejected |-> FALSE]
    ELSE LET c == src[counter + 1]
         IN  IF c = "("
             THEN [counter |-> counter + 1, anticipate_params |-> has_name,
                   rejected |-> ~has_name]
             ELSE IF c \in {"\t", "#"}
             THEN [counter |-> counter + 1, anticipate_params |-> FALSE,
                   rejected |-> TRUE]
             ELSE IF c = " "
             THEN [counter |-> counter + 1, anticipate_params |-> FALSE,
                   rejected |-> ~has_name]
             ELSE find_function_name(src, counter + 1, TRUE)

is_function_block(src) ==
    LET name == find_function_name(src, 1, FALSE)
        params == IF name.anticipate_params
                  THEN scan_past(src, name.counter, ")")
                  ELSE [counter |-> name.counter, found |-> TRUE]
        params_are_valid == params.found
    IN  IF name.rejected THEN FALSE
        ELSE IF ~params_are_valid THEN FALSE
        ELSE only_chars_after(src, params.counter, {" ", "\t", "\n"})

RECURSIVE is_heading_from(_, _)
is_heading_from(src, i) ==
    IF i > Len(src) THEN FALSE
    ELSE IF src[i] = " " THEN TRUE
    ELSE IF src[i] = "#" THEN is_heading_from(src, i + 1)
    ELSE FALSE

is_heading(src) == is_heading_from(src, 2)

\* The kind categorize chooses for a source that is not empty.
kind_of(src) ==
    LET first_char == src[1]
    IN  IF first_char = "#"
        THEN IF is_heading(src) THEN "Heading"
             ELSE IF is_function_block(src) THEN "Function"
             ELSE "Text"
        ELSE IF first_char = "!"
        THEN IF is_image(src) THEN "Image" ELSE "Text"
        ELSE IF first_char \in {"1", "2", "3", "4", "5", "6", "7", "8", "9"}
        THEN IF is_ordered_list(src) THEN "List" ELSE "Text"
        ELSE IF first_char \in {"-", "+", "*"}
        THEN IF is_horizontal_rule(src, first_char) THEN "HorizontalRule"
             ELSE IF is_unordered_list(src, first_char) THEN "List"
             ELSE "Text"
        ELSE IF first_char = "_"
        THEN IF is_horizontal_rule(src, first_char) THEN "HorizontalRule" ELSE "Text"
        ELSE IF first_char = ">" THEN "Quote"
        ELSE IF first_char = "|" THEN "Table"
        ELSE IF first_char = Backtick
        THEN IF is_code_block(src) THEN "Code" ELSE "Text"
        ELSE "Text"

\* BlockCategorizer::categorize; panicked records the unwrap of the first
\* character of an empty source.
categorize(block) ==
    IF block.src = <<>>
    THEN [panicked |-> TRUE]
    ELSE [panicked |-> FALSE,
          block |-> CategorizedBlock_new(kind_of(block.src), block.src, block.span)]

(***************************************************************************)
(* Block parsers.  Every parser yields a record: panicked says that the    *)
(* call panics, result is the ParseResult it returns otherwise.            *)
(***************************************************************************)
Returned(result) == [panicked |-> FALSE, result |-> result]
Panicked == [panicked |-> TRUE]

\* TextParser::new(src, span).parse()
TextParser_run(src, span) ==
    LET outcome(p) == IF p.panicked THEN Panicked ELSE Returned(p.returned.value)
    IN  outcome(TextParser_parse(src, span))

\* str::lines for sources without carriage returns
RECURSIVE Lines(_)
Lines(src) ==
    IF src = <<>> THEN <<>>
    ELSE LET cut == scan_past(src, 0, "\n")
         IN  IF cut.found
             THEN <<SubSeq(src, 1, cut.counter - 1)>>
                      \o Lines(SubSeq(src, cut.counter + 1, Len(src)))
             ELSE <<src>>

\* str::starts_with and str::ends_with for the fence
StartsWithFence(src) == IsFenceAt(src, 1)
EndsWithFence(src) == Len(src) >= 3 /\ IsFenceAt(src, Len(src) - 2)

(***************************************************************************)
(* parser::heading: HeadingParser                                          *)
(***************************************************************************)
find_heading_level(src) ==
    LET heading_level == leading_count(src, "#")
    IN  [heading_level |-> heading_level, offset |-> heading_level + 1]

HeadingParser_parse(src, span) ==
    LET found == find_heading_level(src)
        rest_str == SubSeq(src, found.offset + 1, Len(src))
        block_of(parsed) ==
            IF parsed.panicked THEN Panicked
            ELSE IF ~parsed.result.ok THEN parsed
            ELSE Returned(Ok(ParsedBlock_new(
                    [name |-> "Heading",
                     level |-> found.heading_level,
                     text_tree |-> parsed.result.value.kind.tree],
                    span)))
    IN  IF found.offset > Len(src) THEN Panicked
        ELSE block_of(TextParser_run(rest_str, span))

(***************************************************************************)
(* parser::code: CodeParser                                                *)
(***************************************************************************)
\* The loop of find_header that collects the language identifier.
RECURSIVE collect_language_identifier(_, _)
collect_language_identifier(rest, language_identifier) ==
    IF rest = <<>> THEN language_identifier
    ELSE IF Head(rest) \in {" ", "\t", "\n"} THEN language_identifier
    ELSE IF Head(rest) = Backtick THEN <<>>
    ELSE collect_language_identifier(Tail(rest), Append(language_identifier, Head(rest)))

find_header(src, span) ==
    LET trimmed_src == TrimStart(src)
        offset == Len(src) - Len(trimmed_src)
        language_identifier ==
            collect_language_identifier(SubSeq(trimmed_src, 4, Len(trimmed_src)), <<>>)
    IN  IF StartsWithFence(trimmed_src)
        THEN Ok([offset |-> offset + 3 + Len(language_identifier),
                 language_identifier |->
                     IF language_identifier = <<>> THEN None
                     ELSE Some(language_identifier)])
        ELSE Err(ParseError("Code block must be started with three backticks",
                            span.start))

find_footer(src, span) ==
    LET trimmed_src_len == Len(TrimEnd(src))
    IN  IF EndsWithFence(src)
        THEN Ok([offset |-> trimmed_src_len - 3])
        ELSE Err(ParseError("Code block must be ended with three backticks",
                            span.end))

\* The slice of the source between header and footer, trimmed, and the block
\* CodeParser::parse returns; slicing panics when the header ends after the
\* start of the footer.
code_finish(src, header, footer, span) ==
    IF header.offset > footer.offset THEN Panicked
    ELSE Returned(Ok(ParsedBlock_new(
            [name |-> "Code",
             language |-> header.language_identifier,
             src |-> Trim(SubSeq(src, header.offset + 1, footer.offset))],
            span)))

CodeParser_parse(src, span) ==
    LET header == find_header(src, span)
        footer == find_footer(src, span)
    IN  IF ~header.ok THEN Returned(header)
        ELSE IF ~footer.ok THEN Returned(footer)
        ELSE code_finish(src, header.value, footer.value, span)

(***************************************************************************)
(* parser::block::quote: QuoteTree and parser::quote: QuoteParser          *)
(***************************************************************************)
QuoteNode_new(id, kind) == [id |-> id, kind |-> kind, children |-> <<>>]

QuoteTree_new ==
    LET g == IdGenerator_next(IdGenerator_new)
    IN  [nodes |-> (g.id :> QuoteNode_new(g.id, [name |-> "Parent"])),
         root |-> g.id,
         node_id_generator |-> g.generator]

\* Result: the tree after the registration and the id of the new node.
QuoteTree_register_node(tree, parent, kind) ==
    LET g == IdGenerator_next(tree.node_id_generator)
        inserted == (g.id :> QuoteNode_new(g.id, kind)) @@ tree.nodes
    IN  [tree |-> [tree EXCEPT
                     !.node_id_generator = g.generator,
                     !.nodes = [inserted EXCEPT
                                  ![parent].children = Append(@, g.id)]],
         id |-> g.id]

\* The scan of one line in find_indented_quote_lines: indent and offset when
\* the scan stops, failed when the line has no quote character.
RECURSIVE scan_quote_line(_, _, _)
scan_quote_line(line, indent, offset) ==
    IF offset >= Len(line)
    THEN [indent |-> indent, offset |-> offset, failed |-> FALSE]
    ELSE LET c == line[offset + 1]
         IN  IF c \in {"\t", " "} THEN scan_quote_line(line, indent, offset + 1)
             ELSE IF c = ">" THEN scan_quote_line(line, indent + 1, offset + 1)
             ELSE [indent |-> indent, offset |-> offset, failed |-> indent = 0]

RECURSIVE find_indented_quote_lines_from(_, _, _)
find_indented_quote_lines_from(lines, line_number, result) ==
    IF lines = <<>> THEN Ok(result)
    ELSE LET line == Head(lines)
             scan == scan_quote_line(line, 0, 0)
         IN  IF scan.failed
             THEN Err(ParseError(<<"Found no quote line start character in line",
                                   line_number>>,
                                 SourcePosition_new(line_number, scan.offset + 1)))
             ELSE find_indented_quote_lines_from(Tail(lines), line_number + 1,
                     Append(result,
                            [line |-> SubSeq(line, scan.offset + 1, Len(line)),
                             line_number |-> line_number,
                             indent |-> scan.indent,
                             offset |-> scan.offset]))

find_indented_quote_lines(src, span) ==
    find_indented_quote_lines_from(Lines(src), span.start.line, <<>>)

\* q holds the local variables of QuoteParser::parse; returned is the error
\* the call returns early, if any.
consume_text_buffer_into_node(q, indented_quote_line, current_parent_id) ==
    LET node_of(parsed) ==
            IF parsed.panicked THEN [q EXCEPT !.panicked = TRUE]
            ELSE IF ~parsed.result.ok THEN [q EXCEPT !.returned = Some(parsed.result)]
            ELSE [q EXCEPT
                    !.tree = QuoteTree_register_node(@, current_parent_id,
                                [name |-> "Leaf",
                                 text_tree |-> parsed.result.value.kind.tree]).tree,
                    !.text_buffer = <<>>]
    IN  node_of(TextParser_run(q.text_buffer,
                    SourceSpan_new(
                        SourcePosition_new(q.start_line_number, q.start_offset + 1),
                        SourcePosition_new(indented_quote_line.line_number,
                            indented_quote_line.offset + 1
                                + Len(indented_quote_line.line)))))

\* while !indents.is_empty() && *indents.last().unwrap() > indent { pop; pop }
RECURSIVE pop_deeper_indents(_, _)
pop_deeper_indents(q, indent) ==
    IF q.indents # <<>> /\ q.indents[Len(q.indents)] > indent
    THEN pop_deeper_indents([q EXCEPT !.indents = Pop(@),
                                      !.parent_node_ids = Pop(@)], indent)
    ELSE q

Stopped(q) == q.panicked \/ q.returned.some

\* The body of the for loop of QuoteParser::parse for one line.
quote_line(q0, l, total) ==
    LET q == IF q0.indents = <<>>
             THEN [q0 EXCEPT !.indents = Append(@, l.indent),
                             !.start_line_number = l.line_number,
                             !.start_offset = l.offset]
             ELSE q0
        current_parent_id == q.parent_node_ids[Len(q.parent_node_ids)]
        current_indent == q.indents[Len(q.indents)]
        \* current_indent < indent: a new Parent node is opened
        opened(consumed, r) ==
            [consumed EXCEPT
                !.tree = r.tree,
                !.parent_node_ids = Append(@, r.id),
                !.indents = Append(@, l.indent),
                !.text_buffer = l.line,
                !.start_line_number = l.line_number,
                !.start_offset = l.offset]
        deeper(consumed) ==
            opened(consumed,
                   QuoteTree_register_node(consumed.tree, current_parent_id,
                                           [name |-> "Parent"]))
        \* current_indent > indent: the deeper indents are popped
        shallower(popped) ==
            IF popped.parent_node_ids = <<>>
            THEN [popped EXCEPT !.panicked = TRUE]
            ELSE [popped EXCEPT
                    !.text_buffer = l.line,
                    !.start_line_number = l.line_number,
                    !.start_offset = l.offset]
        indent_changed(consumed) ==
            IF Stopped(consumed) THEN consumed
            ELSE IF current_indent < l.indent THEN deeper(consumed)
            ELSE shallower(pop_deeper_indents(consumed, l.indent))
        \* the last line consumes the text buffer
        last_line(q1) ==
            IF Stopped(q1) THEN q1
            ELSE IF q1.counter = total - 1
            THEN consume_text_buffer_into_node(q1, l,
                     q1.parent_node_ids[Len(q1.parent_node_ids)])
            ELSE q1
        counted(q2) == IF Stopped(q2) THEN q2 ELSE [q2 EXCEPT !.counter = @ + 1]
    IN  counted(last_line(
            IF q.parent_node_ids = <<>> THEN [q EXCEPT !.panicked = TRUE]
            ELSE IF current_indent = l.indent
            THEN [q EXCEPT !.text_buffer =
                     (IF @ # <<>> THEN Append(@, " ") ELSE @) \o l.line]
            ELSE indent_changed(
                     consume_text_buffer_into_node(q, l, current_parent_id))))

RECURSIVE QuoteParser_loop(_, _, _)
QuoteParser_loop(q, lines, total) ==
    IF lines = <<>> \/ Stopped(q) THEN q
    ELSE QuoteParser_loop(quote_line(q, Head(lines), total), Tail(lines), total)

\* The local variables of QuoteParser::parse before the for loop.
QuoteParser_entry ==
    [tree |-> QuoteTree_new,
     parent_node_ids |-> <<QuoteTree_new.root>>,
     indents |-> <<>>,
     text_buffer |-> <<>>,
     counter |-> 0,
     start_line_number |-> 0,
     start_offset |-> 0,
     returned |-> None,
     panicked |-> FALSE]

\* The value QuoteParser::parse returns after the loop.
quote_finish(q, span) ==
    Ok(ParsedBlock_new([name |-> "Quote", tree |-> q.tree], span))

QuoteParser_parse(src, span) ==
    LET indented_quote_lines == find_indented_quote_lines(src, span)
        q0 == QuoteParser_entry
        outcome(q) ==
            IF q.panicked THEN Panicked
            ELSE IF q.returned.some THEN Returned(q.returned.value)
            ELSE Returned(quote_finish(q, span))
    IN  IF ~indented_quote_lines.ok THEN Returned(indented_quote_lines)
        ELSE outcome(QuoteParser_loop(q0, indented_quote_lines.value,
                                      Len(indented_quote_lines.value)))

(***************************************************************************)
(* parser::block::list: ListTree and parser::list: ListParser              *)
(***************************************************************************)
\* Indent::Zero, Indent::Tab(count), Indent::Space(count)
Indent(kind, count) == [kind |-> kind, count |-> count]

ListNode_new(id, kind, style) ==
    [id |-> id, kind |-> kind, children |-> <<>>, style |-> style]

ListTree_new ==
    LET g == IdGenerator_next(IdGenerator_new)
    IN  [items |-> (g.id :> ListNode_new(g.id, [name |-> "Parent"], "Unordered")),
         root |-> g.id,
         node_id_generator |-> g.generator]

\* Result: the tree after the registration and the id of the new node.
ListTree_register_node(tree, parent_id, kind, style) ==
    LET g == IdGenerator_next(tree.node_id_generator)
        inserted == (g.id :> ListNode_new(g.id, kind, style)) @@ tree.items
    IN  [tree |-> [tree EXCEPT
                     !.node_id_generator = g.generator,
                     !.items = [inserted EXCEPT
                                  ![parent_id].children = Append(@, g.id)]],
         id |-> g.id]

MixedIndentation ==
    "Mixed tab and space in list item indentation. Started indenting with tab and then encountered space."

\* The for loop of is_start_of_new_item from the character at index on.
RECURSIVE is_start_of_new_item_from(_, _, _, _)
is_start_of_new_item_from(line, line_number, index, indent) ==
    IF index >= Len(line)
    THEN Ok([is_start_of_new_item |-> FALSE, indent |-> indent,
             symbol |-> <<>>, is_ordered |-> FALSE])
    ELSE LET c == line[index + 1]
             nth(n) == IF n < Len(line) THEN Some(line[n + 1]) ELSE None
             is_valid_unordered_symbol == c \in {"-", "*", "+"}
             is_valid_ordered_symbol ==
                 /\ c \in {"0", "1", "2", "3", "4", "5", "6", "7", "8", "9"}
                 /\ nth(index + 1) = Some(".")
             symbol == IF is_valid_unordered_symbol THEN Some(<<c>>)
                       ELSE IF is_valid_ordered_symbol
                       THEN Some(SubSeq(line, index + 1, index + 2))
                       ELSE None
             is_followed_by_space ==
                 symbol.some /\ nth(index + Len(symbol.value)) = Some(" ")
         IN  IF c = "\t"
             THEN IF indent.kind = "Space"
                  THEN Err(ParseError(MixedIndentation,
                                      SourcePosition_new(line_number, 1)))
                  ELSE is_start_of_new_item_from(line, line_number, index + 1,
                                                 Indent("Tab", indent.count + 1))
             ELSE IF c = " "
             THEN IF indent.kind = "Tab"
                  THEN Err(ParseError(MixedIndentation,
                                      SourcePosition_new(line_number, 1)))
                  ELSE is_start_of_new_item_from(line, line_number, index + 1,
                                                 Indent("Space", indent.count + 1))
             ELSE Ok([is_start_of_new_item |-> is_followed_by_space,
                      indent |-> indent,
                      symbol |-> IF symbol.some THEN symbol.value ELSE <<>>,
                      is_ordered |-> is_valid_ordered_symbol])

is_start_of_new_item(line, line_number) ==
    is_start_of_new_item_from(line, line_number, 0, Indent("Zero", 0))

\* The for loop of find_items_in_src over the remaining lines.
RECURSIVE find_items_from(_, _, _)
find_items_from(lines, line_number, items) ==
    IF lines = <<>> THEN Returned(Ok(items))
    ELSE LET line == Head(lines)
             line_end == SourcePosition_new(line_number, Len(line) + 1)
             for_line(r) ==
                 IF ~r.ok THEN Returned(r)
                 ELSE IF r.value.is_start_of_new_item
                 THEN find_items_from(Tail(lines), line_number + 1,
                          Append(items,
                              [indent |-> r.value.indent,
                               is_ordered |-> r.value.is_ordered,
                               content |->
                                   SubSeq(line,
                                          r.value.indent.count
                                              + Len(r.value.symbol) + 2,
                                          Len(line)),
                               span |-> SourceSpan_new(
                                            SourcePosition_new(line_number, 1),
                                            line_end)]))
                 ELSE IF items = <<>> THEN Panicked
                 ELSE find_items_from(Tail(lines), line_number + 1,
                          [items EXCEPT ![Len(items)].content = @ \o line,
                                        ![Len(items)].span.end = line_end])
         IN  for_line(is_start_of_new_item(line, line_number))

find_items_in_src(src, span) == find_items_from(Lines(src), span.start.line, <<>>)

\* The local variables of ListParser::parse before the for loop.
ListParser_entry ==
    [tree |-> ListTree_new,
     parent_node_id_stack |-> <<ListTree_new.root>>,
     required_indents |-> <<Indent("Zero", 0)>>,
     returned |-> None,
     panicked |-> FALSE]

\* The body of the for loop of ListParser::parse for one item.
list_item(l, item_in_source) ==
    LET parent_node_id == l.parent_node_id_stack[Len(l.parent_node_id_stack)]
        parent_node_level == Len(l.parent_node_id_stack)
        required_indent_for_same_level == l.required_indents[parent_node_level]
        list_node_style == IF item_in_source.is_ordered THEN "Ordered" ELSE "Unordered"
        leaf(tree, parent_id, item_tree) ==
            ListTree_register_node(tree, parent_id,
                [name |-> "Leaf", text_tree |-> item_tree], list_node_style).tree
        opened(r, item_tree) ==
            [l EXCEPT !.tree = leaf(r.tree, r.id, item_tree),
                      !.parent_node_id_stack = Append(@, r.id),
                      !.required_indents = Append(@, item_in_source.indent)]
        closed(stack, item_tree) ==
            IF stack = <<>> THEN [l EXCEPT !.panicked = TRUE]
            ELSE [l EXCEPT !.required_indents = Pop(@),
                           !.parent_node_id_stack = stack,
                           !.tree = leaf(@, stack[Len(stack)], item_tree)]
        registered(item_tree) ==
            IF item_in_source.indent = required_indent_for_same_level
            THEN [l EXCEPT !.tree = leaf(@, parent_node_id, item_tree)]
            ELSE IF item_in_source.indent.count > required_indent_for_same_level.count
            THEN opened(ListTree_register_node(l.tree, parent_node_id,
                            [name |-> "Parent"], list_node_style),
                        item_tree)
            ELSE closed(Pop(l.parent_node_id_stack), item_tree)
        for_text(parsed) ==
            IF parsed.panicked THEN [l EXCEPT !.panicked = TRUE]
            ELSE IF ~parsed.result.ok THEN [l EXCEPT !.returned = Some(parsed.result)]
            ELSE registered(parsed.result.value.kind.tree)
    IN  IF l.parent_node_id_stack = <<>> THEN [l EXCEPT !.panicked = TRUE]
        ELSE for_text(TextParser_run(item_in_source.content, item_in_source.span))

\* The value ListParser::parse returns after the loop.
list_finish(l, span) ==
    [l EXCEPT !.returned =
        Some(Ok(ParsedBlock_new([name |-> "List", tree |-> l.tree], span)))]

RECURSIVE ListParser_loop(_, _, _)
ListParser_loop(l, items, span) ==
    IF l.panicked \/ l.returned.some THEN l
    ELSE IF items = <<>> THEN list_finish(l, span)
    ELSE ListParser_loop(list_item(l, Head(items)), Tail(items), span)

ListParser_parse(src, span) ==
    LET outcome(l) == IF l.panicked THEN Panicked ELSE Returned(l.returned.value)
        for_items(found) ==
            IF found.panicked THEN Panicked
            ELSE IF ~found.result.ok THEN found
            ELSE outcome(ListParser_loop(ListParser_entry, found.result.value, span))
    IN  for_items(find_items_in_src(src, span))

(***************************************************************************)
(* parser: BlockParser                                                     *)
(***************************************************************************)
\* The match of BlockParser::parse on the kind of the block.
parser_for(kind, src, span) ==
    CASE kind = "Text" -> TextParser_run(src, span)
      [] kind = "Heading" -> HeadingParser_parse(src, span)
      [] kind = "HorizontalRule" ->
            Returned(Ok(ParsedBlock_new([name |-> "HorizontalRule"], span)))
      [] kind = "Code" -> CodeParser_parse(src, span)
      [] kind = "Quote" -> QuoteParser_parse(src, span)

BlockParser_parse(categorized_block) ==
    parser_for(categorized_block.kind, categorized_block.src, categorized_block.span)

(***************************************************************************)
(* transformer::tree: LetterScriptTree                                     *)
(***************************************************************************)
LetterScriptNode_new(id, kind, span) ==
    [id |-> id, kind |-> kind, children |-> <<>>, span |-> span]

LetterScriptTree_new ==
    LET g == IdGenerator_next(IdGenerator_new)
    IN  [node_lookup |->
            (g.id :> LetterScriptNode_new(g.id, [name |-> "Root"],
                        SourceSpan_new(SourcePosition_zero, SourcePosition_zero))),
         root_id |-> g.id,
         node_id_generator |-> g.generator]

\* Result: the tree after the registration and the id of the new node.
LetterScriptTree_register_node(tree, parent_id, kind, span) ==
    LET g == IdGenerator_next(tree.node_id_generator)
        inserted == (g.id :> LetterScriptNode_new(g.id, kind, span)) @@ tree.node_lookup
    IN  [tree |-> [tree EXCEPT
                     !.node_id_generator = g.generator,
                     !.node_lookup = [inserted EXCEPT
                                        ![parent_id].children = Append(@, g.id)]],
         id |-> g.id]

\* The element names of the node kinds that are written as a plain tag.
PlainTagName(kind_name) ==
    CASE kind_name = "Heading" -> <<"h", "e", "a", "d", "i", "n", "g">>
      [] kind_name = "Paragraph" -> <<"p", "a", "r", "a", "g", "r", "a", "p", "h">>
      [] kind_name = "Section" -> <<"s", "e", "c", "t", "i", "o", "n">>
      [] kind_name = "Quote" -> <<"q", "u", "o", "t", "e">>
      [] kind_name = "ListItem" -> <<"l", "i", "s", "t", "-", "i", "t", "e", "m">>
      [] kind_name = "Bold" -> <<"b">>
      [] kind_name = "Italic" -> <<"i">>
      [] kind_name = "Table" -> <<"t", "a", "b", "l", "e">>
      [] kind_name = "TableHeaderRow" -> <<"t", "a", "b", "l", "e", "-", "h", "e", "a", "d", "e", "r", "-", "r", "o", "w">>
      [] kind_name = "TableRow" -> <<"t", "a", "b", "l", "e", "-", "r", "o", "w">>
      [] kind_name = "TableCell" -> <<"t", "a", "b", "l", "e", "-", "c", "e", "l", "l">>

PlainTagKinds == {"Heading", "Paragraph", "Section", "Quote", "ListItem", "Bold", "Italic", "Table", "TableHeaderRow", "TableRow", "TableCell"}

\* " ".repeat(indent)
RECURSIVE Spaces(_)
Spaces(n) == IF n <= 0 THEN <<>> ELSE <<" ">> \o Spaces(n - 1)

\* ' key="value"'
Attribute(key, value) == <<" ">> \o key \o <<"=", "\"">> \o value \o <<"\"">>

\* The order of characters (char::cmp) on the characters of the model.
CharRank(c) ==
    CASE c = "\n" -> 10 [] c = " " -> 32 [] c = "(" -> 40 [] c = ")" -> 41
      [] c = "*" -> 42 [] c = ">" -> 62 [] c = "\\" -> 92 [] c = Backtick -> 96
      [] c = "a" -> 97 [] c = "b" -> 98 [] c = "x" -> 120 [] OTHER -> 128
CharLess(a, b) == CharRank(a) < CharRank(b)

\* The parameters of a function in the order of their keys.  The keys are
\* compared as the sequences of their characters' ranks.
KeyLess(a, b) ==
    \E i \in 1..(Len(a) + 1) :
        /\ \A j \in 1..(i - 1) : j <= Len(b) /\ a[j] = b[j]
        /\ \/ i = Len(a) + 1 /\ Len(b) >= i
           \/ i <= Len(a) /\ i <= Len(b) /\ CharLess(a[i], b[i])

RECURSIVE SortedAttributes(_, _)
SortedAttributes(parameters, keys) ==
    IF keys = {} THEN <<>>
    ELSE LET key == CHOOSE k \in keys : \A other \in keys \ {k} : KeyLess(k, other)
         IN  Attribute(key, parameters[key])
                \o SortedAttributes(parameters, keys \ {key})

\* The text of a Text node: every line break is followed by the indentation.
RECURSIVE IndentLines(_, _)
IndentLines(text, indent_str) ==
    IF text = <<>> THEN <<>>
    ELSE IF Head(text) = "\n"
    THEN <<"\n">> \o indent_str \o IndentLines(Tail(text), indent_str)
    ELSE <<Head(text)>> \o IndentLines(Tail(text), indent_str)

stringify_node_start(node, indent_str) ==
    LET kind == node.kind
    IN  indent_str
        \o (IF kind.name = "Text" THEN IndentLines(kind.text, indent_str)
            ELSE IF kind.name \in PlainTagKinds
            THEN <<"<">> \o PlainTagName(kind.name) \o <<">">>
            ELSE IF kind.name = "Image"
            THEN <<"<", "i", "m", "a", "g", "e">>
                    \o Attribute(<<"s", "r", "c">>, kind.src) \o <<">">>
            ELSE IF kind.name = "List"
            THEN <<"<", "l", "i", "s", "t">>
                    \o (IF kind.ordered
                        THEN Attribute(<<"o", "r", "d", "e", "r", "e", "d">>,
                                       <<"t", "r", "u", "e">>)
                        ELSE <<>>)
                    \o <<">">>
            ELSE IF kind.name = "HorizontalRule"
            THEN <<"<", "h", "o", "r", "i", "z", "o", "n", "t", "a", "l", "-",
                   "r", "u", "l", "e", "/", ">">>
            ELSE IF kind.name = "Link"
            THEN <<"<", "l", "i", "n", "k">>
                    \o Attribute(<<"t", "a", "r", "g", "e", "t">>, kind.target)
                    \o <<">">>
            ELSE IF kind.name = "Code"
            THEN <<"<", "c", "o", "d", "e">>
                    \o (IF kind.language.some
                        THEN Attribute(<<"l", "a", "n", "g", "u", "a", "g", "e">>,
                                       kind.language.value)
                        ELSE <<>>)
                    \o <<">">>
            ELSE IF kind.name = "Function"
            THEN <<"<">> \o kind.function_name
                    \o SortedAttributes(kind.parameters, DOMAIN kind.parameters)
                    \o <<">">>
            ELSE <<>>)
        \o <<"\n">>

stringify_node_end(node, indent_str) ==
    LET kind == node.kind
        str == IF kind.name \in PlainTagKinds
               THEN <<"<", "/">> \o PlainTagName(kind.name) \o <<">">>
               ELSE IF kind.name = "Image" THEN <<"<", "/", "i", "m", "a", "g", "e", ">">>
               ELSE IF kind.name = "List" THEN <<"<", "/", "l", "i", "s", "t", ">">>
               ELSE IF kind.name = "Link" THEN <<"<", "/", "l", "i", "n", "k", ">">>
               ELSE IF kind.name = "Code" THEN <<"<", "/", "c", "o", "d", "e", ">">>
               ELSE IF kind.name = "Function"
               THEN <<"<", "/">> \o kind.function_name \o <<">">>
               ELSE <<>>
    IN  IF str # <<>> THEN indent_str \o str \o <<"\n">> ELSE <<>>

RECURSIVE stringify_node(_, _, _)
RECURSIVE stringify_nodes(_, _, _)
stringify_nodes(tree, node_ids, indent) ==
    IF node_ids = <<>> THEN <<>>
    ELSE stringify_node(tree, Head(node_ids), indent)
            \o stringify_nodes(tree, Tail(node_ids), indent)

stringify_node(tree, node_id, indent) ==
    LET node == tree.node_lookup[node_id]
        indent_string == Spaces(indent)
    IN  stringify_node_start(node, indent_string)
            \o stringify_nodes(tree, node.children, indent + 4)
            \o stringify_node_end(node, indent_string)

LetterScriptTree_to_string(tree) ==
    stringify_nodes(tree, tree.node_lookup[tree.root_id].children, 0)

(***************************************************************************)
(* transformer: transform and the functions it calls.  tr holds the tree   *)
(* and the node_stack; panicked records the unwrap of the last element of  *)
(* an empty node_stack.                                                    *)
(***************************************************************************)
Last(v) == v[Len(v)]

\* register_node under the last node of the stack; push says whether the new
\* node is pushed on the stack.
register_on_top(tr, kind, span, push) ==
    IF tr.panicked \/ tr.node_stack = <<>> THEN [tr EXCEPT !.panicked = TRUE]
    ELSE LET r == LetterScriptTree_register_node(tr.tree, Last(tr.node_stack),
                                                 kind, span)
         IN  [tr EXCEPT !.tree = r.tree,
                        !.node_stack = IF push THEN Append(@, r.id) ELSE @]

\* node_stack.pop()
pop_node(tr) == [tr EXCEPT !.node_stack = Pop(@)]

script_kind_of(text_node_kind) ==
    CASE text_node_kind.name = "Text" -> [name |-> "Text", text |-> text_node_kind.src]
      [] text_node_kind.name = "Bold" -> [name |-> "Bold"]
      [] text_node_kind.name = "Italic" -> [name |-> "Italic"]
      [] text_node_kind.name = "Code" -> [name |-> "Code", language |-> None]
      [] text_node_kind.name = "Link" ->
            [name |-> "Link", target |-> text_node_kind.target]
      [] text_node_kind.name = "Image" -> [name |-> "Image", src |-> text_node_kind.src]
      [] text_node_kind.name = "Function" ->
            [name |-> "Function", function_name |-> text_node_kind.function_name,
             parameters |-> text_node_kind.parameters]

RECURSIVE transform_text_node(_, _, _)
RECURSIVE transform_text_nodes(_, _, _)
transform_text_nodes(tr, tree, text_node_ids) ==
    IF text_node_ids = <<>> THEN tr
    ELSE transform_text_nodes(transform_text_node(tr, tree, Head(text_node_ids)),
                              tree, Tail(text_node_ids))

transform_text_node(tr, tree, text_node_id) ==
    LET text_node == tree.nodes[text_node_id]
        pushed == register_on_top(tr, script_kind_of(text_node.kind),
                                  text_node.span, TRUE)
    IN  IF text_node.kind.name = "Root" THEN [tr EXCEPT !.panicked = TRUE]
        ELSE pop_node(transform_text_nodes(pushed, tree, text_node.children))

transform_text_tree(tr, tree) ==
    transform_text_nodes(tr, tree, tree.nodes[tree.root].children)

transform_text_block(tr, block, span) ==
    pop_node(transform_text_tree(
        register_on_top(tr, [name |-> "Paragraph"], span, TRUE), block.tree))

\* current_level_of that does not count the level of the root.
current_level_from_zero(tr) ==
    Cardinality({i \in 1..Len(tr.node_stack) :
                    tr.tree.node_lookup[tr.node_stack[i]].kind.name = "Section"})

\* The number of Section nodes on the stack, plus one.
current_level_of(tr) ==
    1 + Cardinality({i \in 1..Len(tr.node_stack) :
                        tr.tree.node_lookup[tr.node_stack[i]].kind.name = "Section"})

RECURSIVE push_sections(_, _, _)
push_sections(tr, count, span) ==
    IF count <= 0 THEN tr
    ELSE push_sections(register_on_top(tr, [name |-> "Section"], span, TRUE),
                       count - 1, span)

RECURSIVE pop_sections(_, _)
pop_sections(tr, count) ==
    IF count <= 0 THEN tr ELSE pop_sections(pop_node(tr), count - 1)

\* The adjustment of the node_stack to a heading of the level.
enter_level(tr, level, span) ==
    LET current_level == current_level_of(tr)
    IN  IF level > current_level THEN push_sections(tr, level - current_level, span)
        ELSE IF level < current_level THEN pop_sections(tr, current_level - level)
        ELSE tr

transform_heading_block(tr, block, span) ==
    pop_node(transform_text_tree(
        register_on_top(enter_level(tr, block.level, span),
                        [name |-> "Heading"], span, TRUE),
        block.text_tree))

RECURSIVE transform_quote_node(_, _, _, _)
RECURSIVE transform_quote_nodes(_, _, _, _)
transform_quote_nodes(tr, quote_tree, quote_node_ids, span) ==
    IF quote_node_ids = <<>> THEN tr
    ELSE transform_quote_nodes(
            transform_quote_node(tr, quote_tree, Head(quote_node_ids), span),
            quote_tree, Tail(quote_node_ids), span)

transform_quote_node(tr, quote_tree, quote_node_id, span) ==
    LET quote_node == quote_tree.nodes[quote_node_id]
    IN  IF quote_node.kind.name = "Parent"
        THEN pop_node(transform_quote_nodes(
                register_on_top(tr, [name |-> "Quote"], span, TRUE),
                quote_tree, quote_node.children, span))
        ELSE transform_text_tree(tr, quote_node.kind.text_tree)

transform_quote_block(tr, block, span) ==
    transform_quote_node(tr, block.tree, block.tree.root, span)

RECURSIVE transform_list_item(_, _, _, _)
RECURSIVE transform_list_items(_, _, _, _)
transform_list_items(tr, list_tree, item_node_ids, span) ==
    IF item_node_ids = <<>> THEN tr
    ELSE transform_list_items(
            transform_list_item(tr, list_tree, Head(item_node_ids), span),
            list_tree, Tail(item_node_ids), span)

transform_list_item(tr, list_tree, item_node_id, span) ==
    LET list_node == list_tree.items[item_node_id]
    IN  IF list_node.kind.name = "Parent"
        THEN pop_node(transform_list_items(
                register_on_top(tr, [name |-> "List",
                                     ordered |-> list_node.style = "Ordered"],
                                span, TRUE),
                list_tree, list_node.children, span))
        ELSE pop_node(transform_text_tree(
                register_on_top(tr, [name |-> "ListItem"], span, TRUE),
                list_node.kind.text_tree))

transform_list_block(tr, block, span) ==
    transform_list_item(tr, block.tree, block.tree.root, span)

transform_code_block(tr, block, span) ==
    pop_node(register_on_top(
        register_on_top(tr, [name |-> "Code", language |-> block.language], span, TRUE),
        [name |-> "Text", text |-> block.src], span, FALSE))

transform_horizontal_rule(tr, span) ==
    register_on_top(tr, [name |-> "HorizontalRule"], span, FALSE)

transform_block(tr, block) ==
    LET span == block.span
        kind == block.kind
    IN  CASE kind.name = "Text" -> transform_text_block(tr, kind, span)
          [] kind.name = "Heading" -> transform_heading_block(tr, kind, span)
          [] kind.name = "Quote" -> transform_quote_block(tr, kind, span)
          [] kind.name = "Code" -> transform_code_block(tr, kind, span)
          [] kind.name = "HorizontalRule" -> transform_horizontal_rule(tr, span)

\* LetterScriptTree::new() and the node_stack of transform_blocks on entry
transform_entry ==
    [tree |-> LetterScriptTree_new,
     node_stack |-> <<LetterScriptTree_new.root_id>>,
     panicked |-> FALSE]

RECURSIVE transform_blocks(_, _)
transform_blocks(tr, bs) ==
    IF bs = <<>> THEN tr
    ELSE transform_blocks(transform_block(tr, Head(bs)), Tail(bs))

transform(bs) == transform_blocks(transform_entry, bs)

(***************************************************************************)
(* convert: the iterator chain splitter -> categorize -> parse -> collect  *)
(* is lazy, one block travels through all stages before the next is split. *)
(***************************************************************************)
\* collect::<Result<Vec<_>, _>>(): the Vec gathered, the residual error and
\* whether the collection has stopped.
collect_entry == [vec |-> <<>>, residual |-> None, finished |-> FALSE]

\* collect_item that goes on after an error.
collect_item_without_stop(c, result) ==
    IF result.ok
    THEN [c EXCEPT !.vec = Append(@, result.value)]
    ELSE [c EXCEPT !.residual = Some(result.error)]

\* One item of the chain arrives at collect.
collect_item(c, result) ==
    IF result.ok
    THEN [c EXCEPT !.vec = Append(@, result.value)]
    ELSE [c EXCEPT !.residual = Some(result.error), !.finished = TRUE]

\* The value of collect once it has stopped or the chain is exhausted.
collect_result(c) ==
    IF c.residual.some THEN Err(c.residual.value) ELSE Ok(c.vec)

\* format!("Failed to parse block: {:?}", blocks_result): the prefix and the
\* value that is formatted.
failed_to_parse(result) == <<"Failed to parse block: ", result>>

\* Lines 31 to 41 of convert.
convert_return(result) ==
    IF result.ok THEN Ok(<<>>) ELSE Err(failed_to_parse(result))

ConvertAlphabet == {"\n", Backtick, ">", "a", " "}
MaxConvertLen == 5

ConvertInit(inputs) ==
    /\ pc = "convert_next"
    /\ \E src \in inputs :
          /\ source = src
          /\ splitter = BlockSplitter_new(src)
    /\ locals = None
    /\ blocks = <<>>
    /\ first_blocks = <<>>
    /\ pass = 0
    /\ item = None
    /\ collect_state = collect_entry
    /\ blocks_result = None
    /\ convert_result = None
    /\ TextIdle
    /\ TransformIdle
    /\ BlockIdle

\* collect asks for the next item and the splitter yields a block.
ConvertSplit ==
    /\ pc = "convert_next"
    /\ \E r \in {BlockSplitter_next(splitter)} :
          /\ r.item.some
          /\ splitter' = r.splitter
          /\ item' = r.item
    /\ pc' = "convert_categorize"
    /\ UNCHANGED <<locals, blocks, first_blocks, pass, source, collect_state,
                   blocks_result, convert_result, textVars, transVars, blockVars>>

\* collect asks for the next item and the splitter is exhausted.
ConvertExhausted ==
    /\ pc = "convert_next"
    /\ \E r \in {BlockSplitter_next(splitter)} :
          /\ ~r.item.some
          /\ splitter' = r.splitter
    /\ blocks_result' = Some(collect_result(collect_state))
    /\ pc' = "convert_collected"
    /\ UNCHANGED <<locals, blocks, first_blocks, pass, source, item, collect_state,
                   convert_result, textVars, transVars, blockVars>>

ConvertCategorize ==
    /\ pc = "convert_categorize"
    /\ \E c \in {categorize(item.value)} :
          IF c.panicked
          THEN pc' = "panicked" /\ item' = None
          ELSE pc' = "convert_parse" /\ item' = Some(c.block)
    /\ UNCHANGED <<splitVars, source, collect_state, blocks_result, convert_result,
                   textVars, transVars, blockVars>>

ConvertParse ==
    /\ pc = "convert_parse"
    /\ \E r \in {BlockParser_parse(item.value)} :
          IF r.panicked
          THEN pc' = "panicked" /\ item' = None
          ELSE pc' = "convert_collect" /\ item' = Some(r.result)
    /\ UNCHANGED <<splitVars, source, collect_state, blocks_result, convert_result,
                   textVars, transVars, blockVars>>

ConvertCollect ==
    /\ pc = "convert_collect"
    /\ LET c == collect_item(collect_state, item.value)
       IN  /\ collect_state' = c
           /\ IF c.finished
              THEN pc' = "convert_collected" /\ blocks_result' = Some(collect_result(c))
              ELSE pc' = "convert_next" /\ UNCHANGED blocks_result
    /\ item' = None
    /\ UNCHANGED <<splitVars, source, convert_result, textVars, transVars, blockVars>>

ConvertReturn ==
    /\ pc = "convert_collected"
    /\ convert_result' = Some(convert_return(blocks_result.value))
    /\ pc' = "convert_done"
    /\ UNCHANGED <<splitVars, source, item, collect_state, blocks_result,
                   textVars, transVars, blockVars>>

ConvertNext ==
    \/ ConvertSplit
    \/ ConvertExhausted
    \/ ConvertCategorize
    \/ ConvertParse
    \/ ConvertCollect
    \/ ConvertReturn

SpecConvert ==
    ConvertInit(SeqsUpTo(ConvertAlphabet, MaxConvertLen)) /\ [][ConvertNext]_vars

\* C2: no stage of the pipeline aborts abnormally: convert never panics.
C2_NeverAborts == pc # "panicked"

\* C4: when every block parses, convert returns the serialisation of the
\* Script Tree obtained by transforming the parsed blocks in source order.
C4_ReturnsSerialisation ==
    (pc = "convert_done" /\ convert_result.value.ok) =>
        convert_result.value.value =
            LetterScriptTree_to_string(transform(blocks_result.value.value).tree)

\* All the blocks of a source, split eagerly.
RECURSIVE AllBlocks(_)
AllBlocks(s) ==
    LET r == BlockSplitter_next(s)
    IN  IF r.item.some THEN <<r.item.value>> \o AllBlocks(r.splitter) ELSE <<>>

\* What categorising and parsing the block on its own yields.
ParseAlone(block) ==
    IF categorize(block).panicked THEN Panicked
    ELSE BlockParser_parse(categorize(block).block)

Fails(block) == ~ParseAlone(block).panicked /\ ~ParseAlone(block).result.ok

\* The positions of the blocks of the source that fail to parse.
FailingBlocks(src) ==
    LET bs == AllBlocks(BlockSplitter_new(src))
    IN  {i \in 1..Len(bs) : Fails(bs[i])}

\* The error of the first block of the source that fails to parse.
FirstError(src) ==
    LET bs == AllBlocks(BlockSplitter_new(src))
        first == CHOOSE i \in FailingBlocks(src) : \A j \in FailingBlocks(src) : i <= j
    IN  ParseAlone(bs[first]).result.error

\* C5: when blocks fail to parse, the value convert returns is an error made
\* of the error of the first failing block in source order and of nothing
\* else; when no block fails, convert does not return an error.
C5_FirstErrorOnly ==
    (pc = "convert_done") =>
        IF FailingBlocks(source) = {}
        THEN convert_result.value.ok
        ELSE convert_result.value = Err(failed_to_parse(Err(FirstError(source))))

\* convert has returned for a source with two failing blocks whose errors
\* differ.
C5_Witness ==
    /\ pc = "convert_done"
    /\ ~convert_result.value.ok
    /\ LET bs == AllBlocks(BlockSplitter_new(source))
       IN  \E i, j \in FailingBlocks(source) :
              /\ i < j
              /\ ParseAlone(bs[i]).result.error # ParseAlone(bs[j]).result.error

\* The block about to be parsed is not categorised as Text and the parser
\* chosen for its kind fails on it.
DesignatedParserFails ==
    /\ pc = "convert_parse"
    /\ item.value.kind # "Text"
    /\ ~BlockParser_parse(item.value).panicked
    /\ ~BlockParser_parse(item.value).result.ok

\* C6: when the parser chosen for a block that is not categorised as Text
\* fails, the result handed on for the block is the result of the Text Parser
\* on the block.
C6_FallsBackToText ==
    [][DesignatedParserFails =>
          item' = Some(TextParser_run(item.value.src, item.value.span).result)]_vars

(***************************************************************************)
(* Driver of the transformer: one step is one iteration of the for loop of *)
(* transform_blocks.  The blocks are parsed blocks as the parsers build    *)
(* them.                                                                   *)
(***************************************************************************)
MaxHeadingLevel == 3
MaxTransformBlocks == 4

RECURSIVE Hashes(_)
Hashes(n) == IF n <= 0 THEN <<>> ELSE <<"#">> \o Hashes(n - 1)

HeadingBlockOfLevel(level) ==
    HeadingParser_parse(Hashes(level) \o <<" ", "a">>, BlockSpan).result.value

OtherBlocks ==
    {TextParser_run(<<"*", "a", "*">>, BlockSpan).result.value,
     QuoteParser_parse(<<">", "a", "\n", ">", ">", "a">>, BlockSpan).result.value,
     CodeParser_parse(<<Backtick, Backtick, Backtick, "a", "\n", "a", "\n",
                        Backtick, Backtick, Backtick>>, BlockSpan).result.value,
     ParsedBlock_new([name |-> "HorizontalRule"], BlockSpan)}

TransformInputs ==
    SeqsUpTo({HeadingBlockOfLevel(level) : level \in 1..MaxHeadingLevel}
                \cup OtherBlocks,
             MaxTransformBlocks)

\* The running call of transform_blocks, read off the variables.
transform_state ==
    [tree |-> script_tree, node_stack |-> node_stack, panicked |-> pc = "panicked"]

TransformInit(inputs) ==
    /\ pc = "transform"
    /\ parsed_blocks \in inputs
    /\ block_index = 0
    /\ script_tree = transform_entry.tree
    /\ node_stack = transform_entry.node_stack
    /\ SplitIdle
    /\ TextIdle
    /\ ConvertIdle
    /\ BlockIdle

\* The loop body for a block whose kind is one of the given kinds.
TransformBlock(kinds) ==
    /\ pc = "transform"
    /\ block_index < Len(parsed_blocks)
    /\ parsed_blocks[block_index + 1].kind.name \in kinds
    /\ \E tr \in {transform_block(transform_state, parsed_blocks[block_index + 1])} :
          /\ script_tree' = tr.tree
          /\ node_stack' = tr.node_stack
          /\ pc' = IF tr.panicked THEN "panicked" ELSE "transform"
    /\ block_index' = block_index + 1
    /\ UNCHANGED <<parsed_blocks, splitVars, textVars, convVars, blockVars>>

TransformHeading == TransformBlock({"Heading"})
TransformOther == TransformBlock({"Text", "Quote", "Code", "HorizontalRule"})

\* The blocks are exhausted and transform returns the tree.
TransformFinish ==
    /\ pc = "transform"
    /\ block_index = Len(parsed_blocks)
    /\ pc' = "transform_done"
    /\ UNCHANGED <<transVars, splitVars, textVars, convVars, blockVars>>

TransformNext == TransformHeading \/ TransformOther \/ TransformFinish

SpecTransform == TransformInit(TransformInputs) /\ [][TransformNext]_vars

\* The levels of the headings among the blocks transformed so far.
HeadingLevels ==
    LET headings == SelectSeq(SubSeq(parsed_blocks, 1, block_index),
                              LAMBDA b : b.kind.name = "Heading")
    IN  [i \in 1..Len(headings) |-> headings[i].kind.level]

\* The Heading nodes of the Script Tree in the order of their creation.
HeadingNodes ==
    SelectSeq([i \in 1..script_tree.node_id_generator.next_id |-> i - 1],
              LAMBDA id : script_tree.node_lookup[id].kind.name = "Heading")

ParentOf(id) ==
    CHOOSE p \in DOMAIN script_tree.node_lookup :
        \E k \in 1..Len(script_tree.node_lookup[p].children) :
            script_tree.node_lookup[p].children[k] = id

\* The kinds of the nodes between the node and the root, both excluded.
RECURSIVE AncestorKinds(_)
AncestorKinds(id) ==
    IF ParentOf(id) = script_tree.root_id THEN <<>>
    ELSE <<script_tree.node_lookup[ParentOf(id)].kind.name>>
            \o AncestorKinds(ParentOf(id))

\* C3: the Heading node of the i-th heading has exactly h_i - 1 ancestors
\* below the root of the Script Tree, and all of them are Sections.
C3_SectionAncestors ==
    (pc \in {"transform", "transform_done"}) =>
        /\ Len(HeadingNodes) = Len(HeadingLevels)
        /\ \A i \in 1..Len(HeadingNodes) :
              /\ Len(AncestorKinds(HeadingNodes[i])) = HeadingLevels[i] - 1
              /\ \A k \in 1..(HeadingLevels[i] - 1) :
                    AncestorKinds(HeadingNodes[i])[k] = "Section"

\* All blocks are transformed; a deep heading was followed by a block that is
\* not a heading, a shallower heading and a deeper heading again.
C3_Witness ==
    /\ pc = "transform_done"
    /\ \E i, j, k, l \in 1..Len(parsed_blocks) :
          /\ i < j /\ j < k /\ k < l
          /\ parsed_blocks[i].kind.name = "Heading"
          /\ parsed_blocks[j].kind.name # "Heading"
          /\ parsed_blocks[k].kind.name = "Heading"
          /\ parsed_blocks[l].kind.name = "Heading"
          /\ parsed_blocks[i].kind.level > parsed_blocks[k].kind.level
          /\ parsed_blocks[l].kind.level > parsed_blocks[k].kind.level + 1

(***************************************************************************)
(* Driver of the list parser: find_items_in_src and then one step per      *)
(* iteration of the for loop of ListParser::parse.  A source is a sequence *)
(* of lines: items at several indents and a line that continues an item.   *)
(***************************************************************************)
MaxListLines == 4

ListLines ==
    {<<"-", " ", "a">>,
     <<" ", "-", " ", "a">>,
     <<" ", " ", "-", " ", "a">>,
     <<"\t", "-", " ", "a">>,
     <<"1", ".", " ", "a">>,
     <<"a">>}

RECURSIVE JoinLines(_)
JoinLines(ls) ==
    IF ls = <<>> THEN <<>>
    ELSE IF Len(ls) = 1 THEN Head(ls)
    ELSE Head(ls) \o <<"\n">> \o JoinLines(Tail(ls))

ListInputs == {JoinLines(ls) : ls \in SeqsUpTo(ListLines, MaxListLines)}

ListInit(inputs) ==
    /\ pc = "list_find"
    /\ block_src \in inputs
    /\ block_locals = None
    /\ block_result = None
    /\ SplitIdle
    /\ TextIdle
    /\ ConvertIdle
    /\ TransformIdle

\* let items = self.find_items_in_src()?; and the locals before the loop
ListFindItems ==
    /\ pc = "list_find"
    /\ \E found \in {find_items_in_src(block_src, BlockSpan)} :
          IF found.panicked
          THEN pc' = "panicked" /\ UNCHANGED <<block_locals, block_result>>
          ELSE IF ~found.result.ok
          THEN /\ pc' = "block_done"
               /\ block_result' = Some(found)
               /\ UNCHANGED block_locals
          ELSE /\ pc' = "list"
               /\ block_locals' = [items |-> found.result.value] @@ ListParser_entry
               /\ UNCHANGED block_result
    /\ UNCHANGED <<block_src, splitVars, textVars, convVars, transVars>>

\* The arm of the loop body the next item takes.
ListBranch ==
    LET next_item == Head(block_locals.items)
        required == block_locals.required_indents[Len(block_locals.parent_node_id_stack)]
    IN  IF next_item.indent = required THEN "same"
        ELSE IF next_item.indent.count > required.count THEN "deeper"
        ELSE "shallower"

\* One iteration of the for loop for an item that takes the given arm.
ListItem(branch) ==
    /\ pc = "list"
    /\ block_locals.items # <<>>
    /\ ListBranch = branch
    /\ \E l \in {list_item(block_locals, Head(block_locals.items))} :
          /\ block_locals' = [l EXCEPT !.items = Tail(@)]
          /\ pc' = IF l.panicked THEN "panicked"
                   ELSE IF l.returned.some THEN "block_done"
                   ELSE "list"
          /\ block_result' = IF ~l.panicked /\ l.returned.some
                             THEN Some(Returned(l.returned.value))
                             ELSE block_result
    /\ UNCHANGED <<block_src, splitVars, textVars, convVars, transVars>>

ListItemSame == ListItem("same")
ListItemDeeper == ListItem("deeper")
ListItemShallower == ListItem("shallower")

\* The items are exhausted and parse returns the block.
ListFinish ==
    /\ pc = "list"
    /\ block_locals.items = <<>>
    /\ block_result' = Some(Returned(list_finish(block_locals, BlockSpan).returned.value))
    /\ pc' = "block_done"
    /\ UNCHANGED <<block_src, block_locals, splitVars, textVars, convVars, transVars>>

ListNext ==
    \/ ListFindItems
    \/ ListItemSame
    \/ ListItemDeeper
    \/ ListItemShallower
    \/ ListFinish

SpecList == ListInit(ListInputs) /\ [][ListNext]_vars

\* The next item has a lesser indent than the Parent on top of the stack
\* requires, and a Parent on the stack requires exactly the item's indent.
ListItemClosesLevels ==
    /\ pc = "list"
    /\ block_locals.items # <<>>
    /\ ListBranch = "shallower"
    /\ \E k \in 1..Len(block_locals.required_indents) :
          block_locals.required_indents[k] = Head(block_locals.items).indent

\* C11: an item with a lesser indent pops the stack until the required indent
\* of the top entry is the indent of the item, and the Leaf of the item is
\* appended to the Parent then on top.
C11_PopsUntilMatch ==
    [][ListItemClosesLevels =>
          LET after == block_locals'
              leaf_id == block_locals.tree.node_id_generator.next_id
              top == after.parent_node_id_stack[Len(after.parent_node_id_stack)]
              children == after.tree.items[top].children
          IN  /\ after.required_indents[Len(after.required_indents)]
                    = Head(block_locals.items).indent
              /\ children # <<>>
              /\ children[Len(children)] = leaf_id]_vars

(***************************************************************************)
(* Driver of the quote parser: find_indented_quote_lines and then one step *)
(* per iteration of the for loop of QuoteParser::parse.  A source is a     *)
(* sequence of quote lines of several depths.                              *)
(***************************************************************************)
MaxQuoteLines == 4
MaxQuoteDepth == 3

RECURSIVE QuoteMarks(_)
QuoteMarks(depth) == IF depth <= 0 THEN <<>> ELSE <<">">> \o QuoteMarks(depth - 1)

QuoteLines ==
    {QuoteMarks(depth) \o <<content>> : depth \in 1..MaxQuoteDepth, content \in {"a", "b"}}

QuoteInputs == {JoinLines(ls) : ls \in SeqsUpTo(QuoteLines, MaxQuoteLines) \ {<<>>}}

QuoteInit(inputs) ==
    /\ pc = "quote_find"
    /\ block_src \in inputs
    /\ block_locals = None
    /\ block_result = None
    /\ SplitIdle
    /\ TextIdle
    /\ ConvertIdle
    /\ TransformIdle

\* let indented_quote_lines = self.find_indented_quote_lines()?; and the
\* locals before the loop
QuoteFindLines ==
    /\ pc = "quote_find"
    /\ \E found \in {find_indented_quote_lines(block_src, BlockSpan)} :
          IF ~found.ok
          THEN /\ pc' = "block_done"
               /\ block_result' = Some(Returned(found))
               /\ UNCHANGED block_locals
          ELSE /\ pc' = "quote"
               /\ block_locals' =
                     [lines |-> found.value, total |-> Len(found.value)]
                         @@ QuoteParser_entry
               /\ UNCHANGED block_result
    /\ UNCHANGED <<block_src, splitVars, textVars, convVars, transVars>>

\* The arm of the loop body the next line takes.
QuoteBranch ==
    LET next_line == Head(block_locals.lines)
        current_indent == IF block_locals.indents = <<>> THEN next_line.indent
                          ELSE block_locals.indents[Len(block_locals.indents)]
    IN  IF current_indent = next_line.indent THEN "same"
        ELSE IF current_indent < next_line.indent THEN "deeper"
        ELSE "shallower"

\* One iteration of the for loop for a line that takes the given arm.
QuoteLine(branch) ==
    /\ pc = "quote"
    /\ block_locals.lines # <<>>
    /\ QuoteBranch = branch
    /\ \E q \in {quote_line(block_locals, Head(block_locals.lines), block_locals.total)} :
          /\ block_locals' = [q EXCEPT !.lines = Tail(@)]
          /\ pc' = IF q.panicked THEN "panicked"
                   ELSE IF q.returned.some THEN "block_done"
                   ELSE "quote"
          /\ block_result' = IF ~q.panicked /\ q.returned.some
                             THEN Some(Returned(q.returned.value))
                             ELSE block_result
    /\ UNCHANGED <<block_src, splitVars, textVars, convVars, transVars>>

QuoteLineSame == QuoteLine("same")
QuoteLineDeeper == QuoteLine("deeper")
QuoteLineShallower == QuoteLine("shallower")

\* The lines are exhausted and parse returns the block.
QuoteFinish ==
    /\ pc = "quote"
    /\ block_locals.lines = <<>>
    /\ block_result' = Some(Returned(quote_finish(block_locals, BlockSpan)))
    /\ pc' = "block_done"
    /\ UNCHANGED <<block_src, block_locals, splitVars, textVars, convVars, transVars>>

QuoteNext ==
    \/ QuoteFindLines
    \/ QuoteLineSame
    \/ QuoteLineDeeper
    \/ QuoteLineShallower
    \/ QuoteFinish

SpecQuote == QuoteInit(QuoteInputs) /\ [][QuoteNext]_vars

\* The depth of a quote line of the source and its contents.
QuoteDepthOf(line) == Len(SelectSeq(line, LAMBDA c : c = ">"))
QuoteContentOf(line) == SelectSeq(line, LAMBDA c : c # ">")

\* The texts of the maximal runs of consecutive lines of one depth, each the
\* contents of the lines of the run joined by single spaces.
RECURSIVE RunTexts(_, _, _)
RunTexts(lines, depth, text) ==
    IF lines = <<>> THEN <<text>>
    ELSE IF QuoteDepthOf(Head(lines)) = depth
    THEN RunTexts(Tail(lines), depth, text \o <<" ">> \o QuoteContentOf(Head(lines)))
    ELSE <<text>> \o RunTexts(Tail(lines), QuoteDepthOf(Head(lines)),
                              QuoteContentOf(Head(lines)))

ExpectedLeafTexts ==
    LET lines == Lines(block_src)
    IN  RunTexts(Tail(lines), QuoteDepthOf(Head(lines)), QuoteContentOf(Head(lines)))

\* The texts of the Leaf nodes of the parsed quote tree in the order of
\* their creation.
LeafTexts ==
    LET tree == block_result.value.result.value.kind.tree
        ids == SelectSeq([i \in 1..tree.node_id_generator.next_id |-> i - 1],
                         LAMBDA id : tree.nodes[id].kind.name = "Leaf")
        text_of(leaf_tree) ==
            [k \in 1..Len(leaf_tree.nodes[leaf_tree.root].children) |->
                leaf_tree.nodes[leaf_tree.nodes[leaf_tree.root].children[k]].kind]
    IN  [i \in 1..Len(ids) |-> text_of(tree.nodes[ids[i]].kind.text_tree)]

\* C12: every maximal run of consecutive lines of one depth yields exactly
\* one Leaf whose text is the contents of the lines joined by single spaces.
C12_OneLeafPerRun ==
    (pc = "block_done" /\ block_result.value.result.ok) =>
        LeafTexts = [i \in 1..Len(ExpectedLeafTexts) |->
                        <<[name |-> "Text", src |-> ExpectedLeafTexts[i]]>>]

(***************************************************************************)
(* The tokenizer on sources with every kind of whitespace.                 *)
(***************************************************************************)
MaxWhitespaceLen == 4
WhitespaceAlphabet == {" ", "\t", "\r", "\n", "\\", Backtick, "a"}

SpecWhitespace ==
    TextInit(SeqsUpTo(WhitespaceAlphabet, MaxWhitespaceLen)) /\ [][TextNext]_vars

\* The i-th token was emitted outside a code span.
OutsideCodeSpan(i) == CountKind("CodeStart", i) = CountKind("CodeEnd", i)

\* C13: a Text token emitted outside a code span contains no tab, no carriage
\* return and no two consecutive spaces.
C13_WhitespaceNormalised ==
    \A i \in 1..Len(tokens) :
        (tokens[i].kind.name = "Text" /\ OutsideCodeSpan(i)) =>
            LET text == tokens[i].kind.src
            IN  /\ \A k \in 1..Len(text) : text[k] \notin {"\t", "\r"}
                /\ \A k \in 1..(Len(text) - 1) : ~(text[k] = " " /\ text[k + 1] = " ")

(***************************************************************************)
(* Italic text between two single stars.                                   *)
(***************************************************************************)
Letters == {"a"}
PlainChars == {"a", " "}

\* The places of the stars of the source of the tokenizer.
StarPlaces == {i \in 1..Len(tokenizer.src) : tokenizer.src[i] = "*"}
OpeningStar == CHOOSE i \in StarPlaces : \A j \in StarPlaces : i <= j

\* The source is plain text, then one star, one or more letters and one star.
IsItalicSource ==
    /\ Cardinality(StarPlaces) = 2
    /\ Len(tokenizer.src) \in StarPlaces
    /\ OpeningStar + 1 < Len(tokenizer.src)
    /\ \A i \in (OpeningStar + 1)..(Len(tokenizer.src) - 1) : tokenizer.src[i] \in Letters
    /\ \A i \in 1..(OpeningStar - 1) : tokenizer.src[i] \in PlainChars

ItalicPrefix == SubSeq(tokenizer.src, 1, OpeningStar - 1)
ItalicText == SubSeq(tokenizer.src, OpeningStar + 1, Len(tokenizer.src) - 1)

\* The token kinds and the children of the root the source stands for.
PrefixKinds == IF ItalicPrefix = <<>> THEN <<>> ELSE <<Text(ItalicPrefix)>>
ExpectedItalicKinds ==
    PrefixKinds \o <<Formatting("ItalicStart"), Text(ItalicText), Formatting("ItalicEnd")>>

KindsOf(ids) == [k \in 1..Len(ids) |-> text_tree.nodes[ids[k]].kind]
RootChildren == text_tree.nodes[text_tree.root].children

\* C14: a star, one or more letters and a star, alone or after plain text,
\* tokenise to ItalicStart, Text of the letters, ItalicEnd and fold into an
\* Italic node whose only child is the Text of the letters.
C14_ItalicPair ==
    (pc \in {"text_done", "panicked"} /\ IsItalicSource) =>
        /\ pc = "text_done"
        /\ parse_result.value.ok
        /\ [k \in 1..Len(tokens) |-> tokens[k].kind] = ExpectedItalicKinds
        /\ KindsOf(RootChildren) = PrefixKinds \o <<[name |-> "Italic"]>>
        /\ KindsOf(text_tree.nodes[RootChildren[Len(RootChildren)]].children)
              = <<Text(ItalicText)>>

(***************************************************************************)
(* A code span that is never closed.                                       *)
(***************************************************************************)
BacktickPlaces == {i \in 1..Len(tokenizer.src) : tokenizer.src[i] = Backtick}
OpeningBacktick == CHOOSE i \in BacktickPlaces : TRUE

\* The source has one backtick, which nothing escapes.
IsUnclosedCodeSpan ==
    /\ Cardinality(BacktickPlaces) = 1
    /\ \A i \in 1..Len(tokenizer.src) : tokenizer.src[i] # "\\"

\* The position of the i-th character of a source of one line that starts at
\* SourcePosition::zero.
PositionOfChar(i) == SourcePosition_new(SourcePosition_zero.line, i)

\* C15: a backtick outside a code span with no later backtick makes the
\* tokenizer emit an Error token, and the text parser returns a ParseError
\* whose source position is the position of that backtick.
C15_ErrorAtOpeningBacktick ==
    (pc \in {"text_done", "panicked"} /\ IsUnclosedCodeSpan) =>
        /\ pc = "text_done"
        /\ tokens # <<>>
        /\ tokens[Len(tokens)].kind.name = "Error"
        /\ ~parse_result.value.ok
        /\ parse_result.value.error.source_position = PositionOfChar(OpeningBacktick)

(***************************************************************************)
(* The tokenizer on sources with hashes and parentheses.                   *)
(***************************************************************************)
MaxHashLen == 4
HashAlphabet == {"#", "(", ")", "a", " ", Backtick}

SpecHash == TextInit(SeqsUpTo(HashAlphabet, MaxHashLen)) /\ [][TextNext]_vars

\* C16: a Function token starts at a hash that is immediately followed by a
\* name of one or more characters, none of them whitespace, an opening
\* parenthesis or a hash, and the name is immediately followed by an opening
\* parenthesis.
C16_FunctionNeedsNameAndParenthesis ==
    \A i \in 1..Len(tokens) :
        tokens[i].kind.name = "Function" =>
            LET name == tokens[i].kind.function_name
                at == tokens[i].span.start.column
                src == tokenizer.src
            IN  /\ name # <<>>
                /\ \A k \in 1..Len(name) : ~IsWhitespace(name[k]) /\ name[k] \notin {"(", "#"}
                /\ at + Len(name) + 1 <= Len(src)
                /\ src[at] = "#"
                /\ SubSeq(src, at + 1, at + Len(name)) = name
                /\ src[at + Len(name) + 1] = "("

(***************************************************************************)
(* parser::table: TableParser                                              *)
(***************************************************************************)
RowKind_for_line_index(line_index) ==
    CASE line_index = 0 -> "Header"
      [] line_index = 1 -> "HeaderSeparator"
      [] OTHER -> "Body"

\* TableParser::new and the locals of parse; returned is the value an early
\* return gives (None while the loops run).
TableParser_new ==
    [header_row |-> <<>>,
     rows |-> <<>>,
     started_row |-> FALSE,
     offset |-> 1,
     cell_value_buffer |-> <<>>,
     returned |-> None,
     panicked |-> FALSE]

TableCell_new(cell_tree) == [text_tree |-> cell_tree]

create_cell(value, line_number, offset) ==
    LET trimmed_value == Trim(value)
        span == SourceSpan_new(
                    SourcePosition_new(line_number, offset - Len(value)),
                    SourcePosition_new(line_number,
                                       offset - (Len(value) - Len(trimmed_value))))
        cell_of(parsed) ==
            IF parsed.panicked THEN Panicked
            ELSE IF ~parsed.result.ok THEN parsed
            ELSE Returned(Ok(TableCell_new(parsed.result.value.kind.tree)))
    IN  cell_of(TextParser_run(trimmed_value, span))

consume_buffer_and_register_cell(p, line_number, row_index) ==
    LET row_kind == RowKind_for_line_index(row_index)
        internal_row_index == row_index - 2
        registered(cell) ==
            IF cell.panicked THEN [p EXCEPT !.panicked = TRUE]
            ELSE IF ~cell.result.ok THEN [p EXCEPT !.returned = Some(cell.result)]
            ELSE IF row_kind = "Header"
            THEN [p EXCEPT !.header_row = Append(@, cell.result.value),
                           !.cell_value_buffer = <<>>]
            ELSE LET with_row == IF Len(p.rows) <= internal_row_index
                                 THEN Append(p.rows, <<>>)
                                 ELSE p.rows
                 IN  [p EXCEPT !.rows = [with_row EXCEPT ![Len(with_row)] =
                                            Append(@, cell.result.value)],
                               !.cell_value_buffer = <<>>]
    IN  IF row_kind = "HeaderSeparator"
        THEN [p EXCEPT !.cell_value_buffer = <<>>]
        ELSE registered(create_cell(p.cell_value_buffer, line_number, p.offset))

\* One iteration of the loop over the characters of a line.
table_char(p, c, line_number, row_index) ==
    LET stepped(q) == IF q.panicked \/ q.returned.some THEN q
                      ELSE [q EXCEPT !.offset = @ + 1]
    IN  IF c = "|"
        THEN IF p.started_row
             THEN stepped(consume_buffer_and_register_cell(p, line_number, row_index))
             ELSE stepped([p EXCEPT !.started_row = TRUE])
        ELSE IF c = "\n"
        THEN stepped([p EXCEPT !.started_row = FALSE])
        ELSE stepped([p EXCEPT !.cell_value_buffer = Append(@, c)])

RECURSIVE table_chars(_, _, _, _)
table_chars(p, chars, line_number, row_index) ==
    IF chars = <<>> \/ p.panicked \/ p.returned.some THEN p
    ELSE table_chars(table_char(p, Head(chars), line_number, row_index),
                     Tail(chars), line_number, row_index)

\* One iteration of the loop over the lines.
table_line(p, line, row_index, span) ==
    table_chars([p EXCEPT !.started_row = FALSE, !.offset = 1,
                          !.cell_value_buffer = <<>>],
                line, span.start.line + row_index, row_index)

\* The value TableParser::parse returns after the loop.
table_finish(p, span) ==
    Ok(ParsedBlock_new([name |-> "Table", header_row |-> p.header_row, rows |-> p.rows],
                       span))

RECURSIVE TableParser_loop(_, _, _, _)
TableParser_loop(p, lines, row_index, span) ==
    IF p.panicked THEN Panicked
    ELSE IF p.returned.some THEN Returned(p.returned.value)
    ELSE IF lines = <<>> THEN Returned(table_finish(p, span))
    ELSE TableParser_loop(table_line(p, Head(lines), row_index, span),
                          Tail(lines), row_index + 1, span)

TableParser_parse(src, span) == TableParser_loop(TableParser_new, Lines(src), 0, span)

(***************************************************************************)
(* Driver of the table parser: one step per line of the block.             *)
(***************************************************************************)
MaxTableLines == 4

TableLines ==
    {<<"|", "a", "|">>, <<"|", "a", "|", "b", "|">>, <<"|">>, <<"|", Backtick, "|">>}

TableInputs == {JoinLines(ls) : ls \in SeqsUpTo(TableLines, MaxTableLines) \ {<<>>}}

TableInit(inputs) ==
    /\ pc = "table_new"
    /\ block_src \in inputs
    /\ block_locals = None
    /\ block_result = None
    /\ SplitIdle
    /\ TextIdle
    /\ ConvertIdle
    /\ TransformIdle

\* let src = self.src.clone(); and the iterator over its lines
TableEnter ==
    /\ pc = "table_new"
    /\ block_locals' = [lines |-> Lines(block_src), row_index |-> 0] @@ TableParser_new
    /\ pc' = "table"
    /\ UNCHANGED <<block_src, block_result, splitVars, textVars, convVars, transVars>>

\* One iteration of the loop over the lines for a line of the given kind.
TableLine(row_kind) ==
    /\ pc = "table"
    /\ block_locals.lines # <<>>
    /\ RowKind_for_line_index(block_locals.row_index) = row_kind
    /\ \E p \in {table_line(block_locals, Head(block_locals.lines),
                            block_locals.row_index, BlockSpan)} :
          /\ block_locals' = [p EXCEPT !.lines = Tail(@), !.row_index = @ + 1]
          /\ pc' = IF p.panicked THEN "panicked"
                   ELSE IF p.returned.some THEN "block_done"
                   ELSE "table"
          /\ block_result' = IF ~p.panicked /\ p.returned.some
                             THEN Some(Returned(p.returned.value))
                             ELSE block_result
    /\ UNCHANGED <<block_src, splitVars, textVars, convVars, transVars>>

TableHeaderLine == TableLine("Header")
TableSeparatorLine == TableLine("HeaderSeparator")
TableBodyLine == TableLine("Body")

\* The lines are exhausted and parse returns the block.
TableFinish ==
    /\ pc = "table"
    /\ block_locals.lines = <<>>
    /\ block_result' = Some(Returned(table_finish(block_locals, BlockSpan)))
    /\ pc' = "block_done"
    /\ UNCHANGED <<block_src, block_locals, splitVars, textVars, convVars, transVars>>

TableNext ==
    \/ TableEnter
    \/ TableHeaderLine
    \/ TableSeparatorLine
    \/ TableBodyLine
    \/ TableFinish

SpecTable == TableInit(TableInputs) /\ [][TableNext]_vars

\* The contents of the cells of a line: the pieces between two pipes.
RECURSIVE CellsOfLine(_, _, _)
CellsOfLine(chars, opened, piece) ==
    IF chars = <<>> THEN <<>>
    ELSE IF Head(chars) = "|"
    THEN (IF opened THEN <<Trim(piece)>> ELSE <<>>) \o CellsOfLine(Tail(chars), TRUE, <<>>)
    ELSE CellsOfLine(Tail(chars), opened, Append(piece, Head(chars)))

\* The source line a cell was read from and the text it holds.
LineOfCell(cell) == cell.text_tree.nodes[cell.text_tree.root].span.start.line
TextOfCell(cell) ==
    LET ids == cell.text_tree.nodes[cell.text_tree.root].children
    IN  IF ids = <<>> THEN <<>> ELSE cell.text_tree.nodes[ids[1]].kind.src

\* The cells of a row are the cells of the given line of the source.
RowHoldsLine(row, line_index) ==
    LET expected == CellsOfLine(Lines(block_src)[line_index + 1], FALSE, <<>>)
    IN  /\ Len(row) = Len(expected)
        /\ \A k \in 1..Len(row) :
              /\ LineOfCell(row[k]) = BlockSpan.start.line + line_index
              /\ TextOfCell(row[k]) = expected[k]

\* The indices of the body lines that have cells, in their order.
BodyLinesWithCells ==
    SelectSeq([i \in 1..Len(Lines(block_src)) |-> i - 1],
              LAMBDA line_index :
                  /\ line_index >= 2
                  /\ CellsOfLine(Lines(block_src)[line_index + 1], FALSE, <<>>) # <<>>)

\* C17: line 0 of a table block gives the header cells, line 1 gives no
\* cells, and every later line gives exactly one body row that holds exactly
\* the cells of that line in their order; a body line without cells is not
\* counted, so that only rows that share or split the cells of lines fail.
C17_OneRowPerLine ==
    (pc = "block_done" /\ block_result.value.result.ok) =>
        LET table == block_result.value.result.value.kind
        IN  /\ RowHoldsLine(table.header_row, 0)
            /\ Len(table.rows) = Len(BodyLinesWithCells)
            /\ \A r \in 1..Len(table.rows) :
                  RowHoldsLine(table.rows[r], BodyLinesWithCells[r])

(***************************************************************************)
(* Driver of the code parser: find_header, find_footer and the slice.  A   *)
(* source is an optional opening fence with an optional language, some     *)
(* content and an optional closing fence.                                  *)
(***************************************************************************)
MaxCodeContentLen == 4
Fence == <<Backtick, Backtick, Backtick>>
CodeAlphabet == {" ", "\n", "a", Backtick}

CodeInputs ==
    {opening \o content \o closing :
        opening \in {<<>>, Fence, Fence \o <<"a">>},
        content \in SeqsUpTo(CodeAlphabet, MaxCodeContentLen),
        closing \in {<<>>, Fence}}

CodeInit(inputs) ==
    /\ pc = "code_header"
    /\ block_src \in inputs
    /\ block_locals = None
    /\ block_result = None
    /\ SplitIdle
    /\ TextIdle
    /\ ConvertIdle
    /\ TransformIdle

\* let header = self.find_header()?;
CodeFindHeader ==
    /\ pc = "code_header"
    /\ \E header \in {find_header(block_src, BlockSpan)} :
          IF ~header.ok
          THEN /\ pc' = "block_done"
               /\ block_result' = Some(Returned(header))
               /\ UNCHANGED block_locals
          ELSE /\ pc' = "code_footer"
               /\ block_locals' = [header |-> header.value]
               /\ UNCHANGED block_result
    /\ UNCHANGED <<block_src, splitVars, textVars, convVars, transVars>>

\* let footer = self.find_footer()?;
CodeFindFooter ==
    /\ pc = "code_footer"
    /\ \E footer \in {find_footer(block_src, BlockSpan)} :
          IF ~footer.ok
          THEN /\ pc' = "block_done"
               /\ block_result' = Some(Returned(footer))
               /\ UNCHANGED block_locals
          ELSE /\ pc' = "code_slice"
               /\ block_locals' = [header |-> block_locals.header, footer |-> footer.value]
               /\ UNCHANGED block_result
    /\ UNCHANGED <<block_src, splitVars, textVars, convVars, transVars>>

\* The slice between header and footer and the block returned.
CodeSlice ==
    /\ pc = "code_slice"
    /\ \E sliced \in {code_finish(block_src, block_locals.header, block_locals.footer,
                                  BlockSpan)} :
          /\ pc' = IF sliced.panicked THEN "panicked" ELSE "block_done"
          /\ block_result' = IF sliced.panicked THEN block_result ELSE Some(sliced)
    /\ UNCHANGED <<block_src, block_locals, splitVars, textVars, convVars, transVars>>

CodeNext ==
    \/ CodeFindHeader
    \/ CodeFindFooter
    \/ CodeSlice

SpecCode == CodeInit(CodeInputs) /\ [][CodeNext]_vars

\* The place of the first character of the source that is no whitespace.
LeadingWhitespace == Len(block_src) - Len(TrimStart(block_src))

\* The source opens with a fence, and it closes with a fence that shares no
\* backtick with the opening one.
HasOpeningFence == IsFenceAt(block_src, LeadingWhitespace + 1)
HasClosingFence ==
    /\ Len(block_src) >= 3
    /\ IsFenceAt(block_src, Len(block_src) - 2)
    /\ HasOpeningFence => Len(block_src) - 2 > LeadingWhitespace + 3

\* C18: for a source that lacks the opening or the closing fence the parse
\* ends, and it ends with a ParseError: it neither succeeds nor panics.
C18_MissingFenceIsParseError ==
    (~(HasOpeningFence /\ HasClosingFence) /\ pc \in {"block_done", "panicked"}) =>
        /\ pc = "block_done"
        /\ ~block_result.value.result.ok

\* The source between the header line and the closing fence, for a source
\* whose header line ends with a line feed.
RawCode ==
    SubSeq(block_src, LeadingWhitespace + 4 +
                          Len(collect_language_identifier(
                                  SubSeq(block_src, LeadingWhitespace + 4, Len(block_src)),
                                  <<>>)),
           Len(block_src) - 3)

\* A text without one line feed at its start and one at its end.
WithoutOneLineFeedAtStart(text) ==
    IF text # <<>> /\ Head(text) = "\n" THEN Tail(text) ELSE text
WithoutOneLineFeedAtEnd(text) ==
    IF text # <<>> /\ text[Len(text)] = "\n" THEN SubSeq(text, 1, Len(text) - 1) ELSE text

\* C19: the content of the code block is the source between the header line
\* and the closing fence, character for character, but for one line feed at
\* its start and one at its end; indentation and further blank lines stay.
C19_ContentVerbatim ==
    (/\ pc = "block_done"
     /\ block_result.value.result.ok
     /\ HasOpeningFence
     /\ HasClosingFence
     /\ RawCode # <<>>
     /\ Head(RawCode) = "\n") =>
        block_result.value.result.value.kind.src
            = WithoutOneLineFeedAtEnd(WithoutOneLineFeedAtStart(RawCode))

(***************************************************************************)
(* parser::function: FunctionParser                                        *)
(***************************************************************************)
\* str::split for a separator of one character: the pieces between the
\* separators, one more than there are separators.
RECURSIVE SplitAt(_, _, _)
SplitAt(chars, separator, piece) ==
    IF chars = <<>> THEN <<piece>>
    ELSE IF Head(chars) = separator
    THEN <<piece>> \o SplitAt(Tail(chars), separator, <<>>)
    ELSE SplitAt(Tail(chars), separator, Append(piece, Head(chars)))

\* The loop over the characters that collects the name: the name, the offset
\* and whether the loop was left by the return for a whitespace.
RECURSIVE function_name_loop(_, _, _)
function_name_loop(chars, name, offset) ==
    IF chars = <<>> THEN [name |-> name, offset |-> offset, whitespace |-> FALSE]
    ELSE IF Head(chars) = "#" THEN function_name_loop(Tail(chars), name, offset + 1)
    ELSE IF Head(chars) \in {" ", "\t"}
    THEN [name |-> name, offset |-> offset, whitespace |-> TRUE]
    ELSE IF Head(chars) = "("
    THEN [name |-> name, offset |-> offset, whitespace |-> FALSE]
    ELSE function_name_loop(Tail(chars), Append(name, Head(chars)), offset + 1)

\* The name of the function and the source after it, or the error returned.
function_name(src, span) ==
    LET trimmed == Trim(src)
        named(found) ==
            IF found.whitespace
            THEN Err(ParseError("Unexpected whitespace in function name", span.start))
            ELSE IF found.name = <<>>
            THEN Err(ParseError("Function name is empty", span.start))
            ELSE Ok([name |-> found.name,
                     rest_src |-> SubSeq(trimmed, found.offset + 1, Len(trimmed))])
    IN  named(function_name_loop(trimmed, <<>>, 0))

\* The entries of the parameter list, or the error returned.
function_entries(rest_src, span) ==
    IF rest_src # <<>> /\ Head(rest_src) = "("
    THEN IF rest_src[Len(rest_src)] # ")"
         THEN Err(ParseError("Expected closing parenthesis for function parameters",
                             span.start))
         ELSE IF SubSeq(rest_src, 2, Len(rest_src) - 1) = <<>> THEN Ok(<<>>)
         ELSE Ok(SplitAt(SubSeq(rest_src, 2, Len(rest_src) - 1), ",", <<>>))
    ELSE Ok(<<>>)

\* One iteration of the loop over the entries; the second parts.next() is
\* None for an entry without a colon, and its unwrap panics.
function_entry(parameters, entry) ==
    LET parts == SplitAt(entry, ":", <<>>)
    IN  IF Len(parts) < 2 THEN Panicked
        ELSE Returned(HashMap_insert(parameters, Trim(parts[1]), Trim(parts[2])))

\* The value FunctionParser::parse returns after the loop.
function_finish(name, parameters, span) ==
    Ok(ParsedBlock_new([name |-> "Function", function_name |-> name,
                        parameters |-> parameters],
                       span))

RECURSIVE function_entries_loop(_, _, _, _)
function_entries_loop(name, parameters, entries, span) ==
    LET inserted(f) == IF f.panicked THEN Panicked
                       ELSE function_entries_loop(name, f.result, Tail(entries), span)
    IN  IF entries = <<>> THEN Returned(function_finish(name, parameters, span))
        ELSE inserted(function_entry(parameters, Head(entries)))

FunctionParser_parse(src, span) ==
    LET with_entries(named, entries) ==
            IF ~entries.ok THEN Returned(entries)
            ELSE function_entries_loop(named.name, HashMap_new, entries.value, span)
        with_name(named) ==
            IF ~named.ok THEN Returned(named)
            ELSE with_entries(named.value, function_entries(named.value.rest_src, span))
    IN  with_name(function_name(src, span))

(***************************************************************************)
(* Driver of the function parser: the name, the parameter list and one     *)
(* step per entry.                                                         *)
(***************************************************************************)
MaxParametersLen == 5
ParameterAlphabet == {"k", "v", ":", ","}

FunctionInputs ==
    {head \o body \o closing :
        head \in {<<"#", "a">>, <<"#">>, <<"#", "a", " ">>},
        body \in {<<>>} \cup {<<"(">> \o parameters :
                                 parameters \in SeqsUpTo(ParameterAlphabet, MaxParametersLen)},
        closing \in {<<>>, <<")">>}}

FunctionInit(inputs) ==
    /\ pc = "function_name"
    /\ block_src \in inputs
    /\ block_locals = None
    /\ block_result = None
    /\ SplitIdle
    /\ TextIdle
    /\ ConvertIdle
    /\ TransformIdle

\* The loop over the characters of the name and the test of the name.
FunctionReadName ==
    /\ pc = "function_name"
    /\ \E named \in {function_name(block_src, BlockSpan)} :
          IF ~named.ok
          THEN /\ pc' = "block_done"
               /\ block_result' = Some(Returned(named))
               /\ UNCHANGED block_locals
          ELSE /\ pc' = "function_parameters"
               /\ block_locals' = [parameters |-> HashMap_new, entries |-> <<>>]
                                      @@ named.value
               /\ UNCHANGED block_result
    /\ UNCHANGED <<block_src, splitVars, textVars, convVars, transVars>>

\* The test of the parentheses and the split of the parameter list.
FunctionSplitParameters ==
    /\ pc = "function_parameters"
    /\ \E entries \in {function_entries(block_locals.rest_src, BlockSpan)} :
          IF ~entries.ok
          THEN /\ pc' = "block_done"
               /\ block_result' = Some(Returned(entries))
               /\ UNCHANGED block_locals
          ELSE /\ pc' = "function_entries"
               /\ block_locals' = [block_locals EXCEPT !.entries = entries.value]
               /\ UNCHANGED block_result
    /\ UNCHANGED <<block_src, splitVars, textVars, convVars, transVars>>

\* One iteration of the loop over the entries.
FunctionEntry ==
    /\ pc = "function_entries"
    /\ block_locals.entries # <<>>
    /\ \E f \in {function_entry(block_locals.parameters, Head(block_locals.entries))} :
          IF f.panicked
          THEN /\ pc' = "panicked"
               /\ UNCHANGED block_locals
          ELSE /\ pc' = "function_entries"
               /\ block_locals' = [block_locals EXCEPT !.parameters = f.result,
                                                       !.entries = Tail(@)]
    /\ UNCHANGED <<block_src, block_result, splitVars, textVars, convVars, transVars>>

\* The entries are exhausted and parse returns the block.
FunctionFinish ==
    /\ pc = "function_entries"
    /\ block_locals.entries = <<>>
    /\ block_result' = Some(Returned(function_finish(block_locals.name,
                                                     block_locals.parameters, BlockSpan)))
    /\ pc' = "block_done"
    /\ UNCHANGED <<block_src, block_locals, splitVars, textVars, convVars, transVars>>

FunctionNext ==
    \/ FunctionReadName
    \/ FunctionSplitParameters
    \/ FunctionEntry
    \/ FunctionFinish

SpecFunction == FunctionInit(FunctionInputs) /\ [][FunctionNext]_vars

\* The source is a hash, a name and a parameter list in parentheses; the
\* entries of the list.
IsFunctionWithParameters ==
    /\ Len(block_src) >= 5
    /\ SubSeq(block_src, 1, 3) = <<"#", "a", "(">>
    /\ block_src[Len(block_src)] = ")"
EntriesOfSource == SplitAt(SubSeq(block_src, 4, Len(block_src) - 1), ",", <<>>)
HasColon(entry) == \E i \in 1..Len(entry) : entry[i] = ":"
WellFormed(entry) == Len(SplitAt(entry, ":", <<>>)) = 2 /\ Trim(SplitAt(entry, ":", <<>>)[1]) # <<>>
KeyOf(entry) == Trim(SplitAt(entry, ":", <<>>)[1])
ValueOf(entry) == Trim(SplitAt(entry, ":", <<>>)[2])

\* The keys of the well-formed entries, each with the value of its last entry.
ExpectedParameters ==
    LET well_formed == SelectSeq(EntriesOfSource, WellFormed)
        keys == {KeyOf(well_formed[i]) : i \in 1..Len(well_formed)}
        last_of(key) == CHOOSE i \in 1..Len(well_formed) :
                            /\ KeyOf(well_formed[i]) = key
                            /\ \A j \in 1..Len(well_formed) :
                                  KeyOf(well_formed[j]) = key => j <= i
    IN  [key \in keys |-> ValueOf(well_formed[last_of(key)])]

\* C20: on a function block whose parameter list has an entry without a
\* colon the parse succeeds, and the mapping holds the well-formed entries
\* and not the entry without a colon.
C20_EntryWithoutColonSkipped ==
    (/\ pc \in {"block_done", "panicked"}
     /\ IsFunctionWithParameters
     /\ \E i \in 1..Len(EntriesOfSource) : ~HasColon(EntriesOfSource[i])
     /\ \A i \in 1..Len(EntriesOfSource) :
           HasColon(EntriesOfSource[i]) => WellFormed(EntriesOfSource[i])) =>
        /\ pc = "block_done"
        /\ block_result.value.result.ok
        /\ block_result.value.result.value.kind.parameters = ExpectedParameters

(***************************************************************************)
(* The same source as a function block and as inline text: once the        *)
(* function parser has ended, the tokenizer and the text parser run on the *)
(* source of the block.                                                    *)
(***************************************************************************)
\* TextParser::new on the source the function parser was given.
InlineEnter ==
    /\ pc \in {"block_done", "panicked"}
    /\ tokenizer = None
    /\ pc' = "text"
    /\ tokenizer' = Tokenizer_new(block_src, BlockSpan)
    /\ tokens' = <<>>
    /\ text_tree' = TextParser_new(<<>>, BlockSpan).tree
    /\ parent_node_id_stack' = TextParser_new(<<>>, BlockSpan).parent_node_id_stack
    /\ parse_result' = None
    /\ UNCHANGED <<splitVars, convVars, transVars, blockVars>>

FunctionBothNext ==
    \/ FunctionNext
    \/ InlineEnter
    \/ ParseLeafToken
    \/ ParseFinish

SpecFunctionBoth == FunctionInit(FunctionInputs) /\ [][FunctionBothNext]_vars

\* Every entry of the parameter list is a key, a colon and a value, but for
\* an empty entry after a trailing comma.
InlineGrammarAccepts ==
    /\ IsFunctionWithParameters
    /\ \A i \in 1..Len(EntriesOfSource) :
          \/ /\ i = Len(EntriesOfSource)
             /\ i > 1
             /\ EntriesOfSource[i] = <<>>
          \/ /\ Len(SplitAt(EntriesOfSource[i], ":", <<>>)) >= 2
             /\ Trim(SplitAt(EntriesOfSource[i], ":", <<>>)[1]) # <<>>
             /\ Trim(SplitAt(EntriesOfSource[i], ":", <<>>)[2]) # <<>>

\* C21: for a source that is a hash, a name and a parameter list the inline
\* grammar accepts, the function parser and the tokenizer yield the same name
\* and the same parameter mapping.
C21_BlockAndInlineAgree ==
    (pc = "text_done" /\ InlineGrammarAccepts) =>
        /\ block_result.some
        /\ block_result.value.result.ok
        /\ Len(tokens) = 1
        /\ tokens[1].kind.name = "Function"
        /\ tokens[1].kind.function_name
              = block_result.value.result.value.kind.function_name
        /\ tokens[1].kind.parameters
              = block_result.value.result.value.kind.parameters

(***************************************************************************)
(* Continuation lines of list items.                                       *)
(***************************************************************************)
\* The line starts an item; the text of the line after its marker.
StartsItem(line) == is_start_of_new_item(line, 1).value.is_start_of_new_item
TextAfterMarker(line) ==
    SubSeq(line,
           is_start_of_new_item(line, 1).value.indent.count
               + Len(is_start_of_new_item(line, 1).value.symbol) + 2,
           Len(line))

\* The texts of the items of the lines: a continuation line is joined to the
\* text of the item before it by one space.
RECURSIVE JoinedItemTexts(_, _)
JoinedItemTexts(lines, texts) ==
    IF lines = <<>> THEN texts
    ELSE IF StartsItem(Head(lines))
    THEN JoinedItemTexts(Tail(lines), Append(texts, TextAfterMarker(Head(lines))))
    ELSE IF texts = <<>> THEN JoinedItemTexts(Tail(lines), texts)
    ELSE JoinedItemTexts(Tail(lines),
                         [texts EXCEPT ![Len(texts)] = @ \o <<" ">> \o Head(lines)])

\* C22: a line that starts no item is appended to the text of the current
\* item after exactly one space.
C22_ContinuationJoinedBySpace ==
    (pc = "list") =>
        LET expected == JoinedItemTexts(Lines(block_src), <<>>)
            found == block_locals.items
        IN  \A i \in 1..Len(found) :
                found[i].content = expected[Len(expected) - Len(found) + i]

(***************************************************************************)
(* The four arenas under sequences of register_node calls.  The parent of  *)
(* a call is an id of the arena, as at every call site: the callers take   *)
(* it from a stack of ids that new and register_node returned.            *)
(***************************************************************************)
MaxTreeNodes == 2

TreesInit ==
    /\ pc = "trees"
    /\ text_tree = TextTree_new(BlockSpan)
    /\ script_tree = LetterScriptTree_new
    /\ block_locals = [list_tree |-> ListTree_new, quote_tree |-> QuoteTree_new]
    /\ tokenizer = None
    /\ tokens = <<>>
    /\ parent_node_id_stack = <<>>
    /\ parse_result = None
    /\ block_src = <<>>
    /\ block_result = None
    /\ parsed_blocks = <<>>
    /\ block_index = 0
    /\ node_stack = <<>>
    /\ SplitIdle
    /\ ConvertIdle

TextTreeRegister ==
    /\ pc = "trees"
    /\ Cardinality(DOMAIN text_tree.nodes) <= MaxTreeNodes
    /\ \E parent_id \in DOMAIN text_tree.nodes :
          text_tree' = TextTree_register_node(text_tree, parent_id, [name |-> "Bold"],
                                              BlockSpan).tree
    /\ UNCHANGED <<pc, tokenizer, tokens, parent_node_id_stack, parse_result, blockVars,
                   splitVars, convVars, transVars>>

ListTreeRegister ==
    /\ pc = "trees"
    /\ Cardinality(DOMAIN block_locals.list_tree.items) <= MaxTreeNodes
    /\ \E parent_id \in DOMAIN block_locals.list_tree.items :
          block_locals' = [block_locals EXCEPT !.list_tree =
              ListTree_register_node(@, parent_id, [name |-> "Parent"], "Unordered").tree]
    /\ UNCHANGED <<pc, textVars, block_src, block_result, splitVars, convVars, transVars>>

QuoteTreeRegister ==
    /\ pc = "trees"
    /\ Cardinality(DOMAIN block_locals.quote_tree.nodes) <= MaxTreeNodes
    /\ \E parent_id \in DOMAIN block_locals.quote_tree.nodes :
          block_locals' = [block_locals EXCEPT !.quote_tree =
              QuoteTree_register_node(@, parent_id, [name |-> "Parent"]).tree]
    /\ UNCHANGED <<pc, textVars, block_src, block_result, splitVars, convVars, transVars>>

ScriptTreeRegister ==
    /\ pc = "trees"
    /\ Cardinality(DOMAIN script_tree.node_lookup) <= MaxTreeNodes
    /\ \E parent_id \in DOMAIN script_tree.node_lookup :
          script_tree' = LetterScriptTree_register_node(script_tree, parent_id,
                                                        [name |-> "Paragraph"],
                                                        BlockSpan).tree
    /\ UNCHANGED <<pc, textVars, blockVars, splitVars, convVars, parsed_blocks,
                   block_index, node_stack>>

TreesNext ==
    \/ TextTreeRegister
    \/ ListTreeRegister
    \/ QuoteTreeRegister
    \/ ScriptTreeRegister

SpecTrees == TreesInit /\ [][TreesNext]_vars

\* The ids an arena holds as children of the given ids, and the ids reached
\* from a set of ids in at most the given number of steps.
ChildrenOf(arena, ids) ==
    UNION {{arena[id].children[k] : k \in 1..Len(arena[id].children)} :
              id \in ids \cap DOMAIN arena}

RECURSIVE ReachedFrom(_, _, _)
ReachedFrom(arena, ids, steps) ==
    IF steps = 0 THEN ids
    ELSE ReachedFrom(arena, ids \cup ChildrenOf(arena, ids), steps - 1)

\* The places (node and index) at which an id is held as a child.
PlacesOf(arena, id) ==
    {place \in {<<holder, k>> : holder \in DOMAIN arena, k \in 1..Cardinality(DOMAIN arena)} :
        /\ place[2] <= Len(arena[place[1]].children)
        /\ arena[place[1]].children[place[2]] = id}

WellFormedArena(arena, root_of_arena) ==
    /\ \A id \in DOMAIN arena :
          \A k \in 1..Len(arena[id].children) : arena[id].children[k] \in DOMAIN arena
    /\ \A id \in DOMAIN arena :
          id \notin ReachedFrom(arena, ChildrenOf(arena, {id}), Cardinality(DOMAIN arena))
    /\ \A id \in DOMAIN arena \ {root_of_arena} : Cardinality(PlacesOf(arena, id)) = 1

\* C23: after any sequence of register_node calls every id held as a child
\* is in the arena, no node reaches itself over children, and every node but
\* the root is held as a child at exactly one place.
C23_ArenasWellFormed ==
    (pc = "trees") =>
        /\ WellFormedArena(text_tree.nodes, text_tree.root)
        /\ WellFormedArena(block_locals.list_tree.items, block_locals.list_tree.root)
        /\ WellFormedArena(block_locals.quote_tree.nodes, block_locals.quote_tree.root)
        /\ WellFormedArena(script_tree.node_lookup, script_tree.root_id)

\* C23 is met after two calls on each tree, with a node below a node that is
\* not the root in the text tree and two children of the root in the script
\* tree.
C23_Witness ==
    /\ pc = "trees"
    /\ Cardinality(DOMAIN text_tree.nodes) = 3
    /\ text_tree.nodes[1].children = <<2>>
    /\ Cardinality(DOMAIN block_locals.list_tree.items) = 3
    /\ Cardinality(DOMAIN block_locals.quote_tree.nodes) = 3
    /\ script_tree.node_lookup[script_tree.root_id].children = <<1, 2>>

(***************************************************************************)
(* The tokenizer on sources about as long as the history of source         *)
(* position updates may get: a run of letters and a short tail.            *)
(***************************************************************************)
MaxHistoryTail == 3
HistoryTailAlphabet == {"\r", "\n", "a"}

RECURSIVE Repeated(_, _)
Repeated(c, n) == IF n <= 0 THEN <<>> ELSE <<c>> \o Repeated(c, n - 1)

HistoryInputs ==
    {Repeated("a", n) \o tail :
        n \in (MAX_SOURCE_POSITION_UPDATE_HISTORY_SIZE - MaxHistoryTail)
                  ..MAX_SOURCE_POSITION_UPDATE_HISTORY_SIZE,
        tail \in SeqsUpTo(HistoryTailAlphabet, MaxHistoryTail)}

\* The call of Tokenizer::next that is running: its locals on entry.
next_locals(t) ==
    [start_position |-> t.offset_source_position,
     text_buffer |-> <<>>,
     treat_next_special_char_as_text |-> FALSE]

NextInit(inputs) ==
    /\ pc = "next"
    /\ \E src \in inputs : tokenizer = Tokenizer_new(src, BlockSpan)
    /\ block_locals = next_locals(Tokenizer_new(<<>>, BlockSpan))
    /\ tokens = <<>>
    /\ text_tree = None
    /\ parent_node_id_stack = <<>>
    /\ parse_result = None
    /\ block_src = <<>>
    /\ block_result = None
    /\ SplitIdle
    /\ ConvertIdle
    /\ TransformIdle

\* One iteration of the loop of Tokenizer::next with the given outcome: the
\* loop goes on, a token is returned (and next is called again), or None is
\* returned.
NextIteration(outcome) ==
    /\ pc = "next"
    /\ \E r \in {Tokenizer_next_iteration(tokenizer, block_locals.start_position,
                                          block_locals.text_buffer,
                                          block_locals.treat_next_special_char_as_text)} :
          /\ outcome = (IF "continue" \in DOMAIN r THEN "continue"
                        ELSE IF r.item.some THEN "token" ELSE "none")
          /\ tokenizer' = r.tokenizer
          /\ block_locals' =
                IF outcome = "continue"
                THEN [block_locals EXCEPT
                        !.text_buffer = r.text_buffer,
                        !.treat_next_special_char_as_text =
                            r.treat_next_special_char_as_text]
                ELSE next_locals(r.tokenizer)
          /\ tokens' = IF outcome = "token" THEN Append(tokens, r.item.value) ELSE tokens
          /\ pc' = IF r.tokenizer.panicked THEN "panicked"
                   ELSE IF outcome = "none" THEN "next_done"
                   ELSE "next"
    /\ UNCHANGED <<text_tree, parent_node_id_stack, parse_result, block_src, block_result,
                   splitVars, convVars, transVars>>

NextContinues == NextIteration("continue")
NextReturnsToken == NextIteration("token")
NextReturnsNone == NextIteration("none")

HistoryNext ==
    \/ NextContinues
    \/ NextReturnsToken
    \/ NextReturnsNone

SpecHistory == NextInit(HistoryInputs) /\ [][HistoryNext]_vars

MaxTokenizeLen == 3

SpecTokenize ==
    /\ NextInit(SeqsUpTo(TextAlphabet, MaxTokenizeLen))
    /\ [][HistoryNext]_vars
    /\ WF_vars(HistoryNext)

\* C25: iterating the tokenizer over a finite source ends: after finitely
\* many calls next returns None.
C25_IterationEnds == <>(pc = "next_done")

\* C25 is met by a source for which a call returned the text read so far and
\* took back the special character read after it.
C25_Witness ==
    /\ pc = "next_done"
    /\ Len(tokens) >= 2
    /\ tokens[1].kind.name = "Text"
    /\ tokens[2].kind.name \in StartKinds

(***************************************************************************)
(* Nesting of the formatting tokens of a block.                            *)
(***************************************************************************)
\* The Start tokens among the first n tokens that no End token has closed,
\* oldest first, when every End token closes the span opened last.
RECURSIVE OpenSpans(_)
OpenSpans(n) ==
    IF n = 0 THEN <<>>
    ELSE IF tokens[n].kind.name \in StartKinds
    THEN Append(OpenSpans(n - 1), tokens[n].kind.name)
    ELSE IF tokens[n].kind.name \in EndKinds THEN Pop(OpenSpans(n - 1))
    ELSE OpenSpans(n - 1)

StartOfEnd(end_name) ==
    CASE end_name = "BoldEnd" -> "BoldStart"
      [] end_name = "ItalicEnd" -> "ItalicStart"
      [] end_name = "CodeEnd" -> "CodeStart"

\* C26: every BoldEnd, ItalicEnd or CodeEnd token emitted for a block closes
\* the span opened last among those still open, and that span has the kind
\* of the End token.
C26_SpansNested ==
    \A n \in 1..Len(tokens) :
        tokens[n].kind.name \in EndKinds =>
            /\ OpenSpans(n - 1) # <<>>
            /\ Last(OpenSpans(n - 1)) = StartOfEnd(tokens[n].kind.name)

(***************************************************************************)
(* The parent-id stack of QuoteParser::parse.                              *)
(***************************************************************************)
\* C27: while QuoteParser::parse runs over the lines of a quote block, of any
\* depths, its stack of parent ids is never empty and holds the root of the
\* Quote Tree at its bottom.
C27_QuoteStackHoldsRoot ==
    pc \in {"quote", "panicked"} =>
        /\ block_locals.parent_node_ids # <<>>
        /\ block_locals.parent_node_ids[1] = block_locals.tree.root

(***************************************************************************)
(* The parent-id stack of TextParser::parse, on longer sources of stars    *)
(* and letters next to the short sources over the whole alphabet.          *)
(***************************************************************************)
MaxEmphasisLen == 11
MaxShortTextLen == 3
EmphasisAlphabet == {"*", "a"}
EmphasisInputs ==
    SeqsUpTo(EmphasisAlphabet, MaxEmphasisLen) \cup SeqsUpTo(TextAlphabet, MaxShortTextLen)

SpecEmphasis == TextInit(EmphasisInputs) /\ [][TextNext]_vars

\* C28: while TextParser::parse runs, and when it has ended, its stack of
\* parent ids is not empty and holds the root of the Text Tree at its bottom:
\* no End token pops the root.
C28_TextStackHoldsRoot ==
    pc \in {"text", "text_done", "panicked"} =>
        /\ parent_node_id_stack # <<>>
        /\ parent_node_id_stack[1] = text_tree.root

(***************************************************************************)
(* The offsets CodeParser::parse slices the source with.                   *)
(***************************************************************************)
\* C29: when find_header and find_footer have both succeeded, the header
\* offset is at most the footer offset and both lie within the source.
C29_SliceInRange ==
    pc = "code_slice" =>
        /\ block_locals.header.offset <= block_locals.footer.offset
        /\ block_locals.header.offset <= Len(block_src)
        /\ block_locals.footer.offset >= 0
        /\ block_locals.footer.offset <= Len(block_src)

(***************************************************************************)
(* Driver of a list block through parser and transformer: the steps of     *)
(* ListParser::parse and then transform_list_block on the block returned.  *)
(* The lines are items with unordered and ordered markers at two indents.  *)
(***************************************************************************)
MaxMarkedLines == 4

MarkedLines ==
    {<<"-", " ", "a">>,
     <<" ", "-", " ", "a">>,
     <<"1", ".", " ", "a">>,
     <<" ", "1", ".", " ", "a">>}

MarkedInputs == {JoinLines(ls) : ls \in SeqsUpTo(MarkedLines, MaxMarkedLines)}

\* transform_blocks for the one List block the parser has returned.
TransformList ==
    /\ pc = "block_done"
    /\ script_tree = None
    /\ block_result.value.result.ok
    /\ \E tr \in {transform_list_block(transform_entry,
                                       block_result.value.result.value.kind,
                                       block_result.value.result.value.span)} :
          /\ script_tree' = tr.tree
          /\ node_stack' = tr.node_stack
          /\ pc' = IF tr.panicked THEN "panicked" ELSE "transform_done"
    /\ UNCHANGED <<parsed_blocks, block_index, splitVars, textVars, convVars, blockVars>>

ListTransformNext == ListNext \/ TransformList

SpecListTransform == ListInit(MarkedInputs) /\ [][ListTransformNext]_vars

\* The List Tree of the block returned by the parser.
ParsedListTree == block_result.value.result.value.kind.tree

\* The Parent nodes of the List Tree from the node on, in the order
\* transform_list_item visits them.
RECURSIVE ParentsFrom(_)
RECURSIVE ParentsOfAll(_)
ParentsOfAll(ids) ==
    IF ids = <<>> THEN <<>> ELSE ParentsFrom(Head(ids)) \o ParentsOfAll(Tail(ids))

ParentsFrom(id) ==
    IF ParsedListTree.items[id].kind.name = "Parent"
    THEN <<id>> \o ParentsOfAll(ParsedListTree.items[id].children)
    ELSE <<>>

\* The styles of the items directly inside the Parent: a Leaf carries the
\* style of the marker its item was written with.
ItemStylesIn(id) ==
    {ParsedListTree.items[c].style :
        c \in {ParsedListTree.items[id].children[k] :
                  k \in 1..Len(ParsedListTree.items[id].children)}
            \cap {c \in DOMAIN ParsedListTree.items :
                     ParsedListTree.items[c].kind.name = "Leaf"}}

\* The List nodes of the script tree in the order of their registration.
RECURSIVE ListNodesFrom(_)
ListNodesFrom(id) ==
    IF id \notin DOMAIN script_tree.node_lookup THEN <<>>
    ELSE (IF script_tree.node_lookup[id].kind.name = "List" THEN <<id>> ELSE <<>>)
            \o ListNodesFrom(id + 1)

\* C30: for a list block whose items of one nesting level share one marker
\* style, the k-th List node of the script tree has ordered = true exactly
\* when the items directly inside the k-th Parent of the List Tree were
\* written with ordered markers, the top-level List included.
C30_OrderedAsWritten ==
    (/\ pc = "transform_done"
     /\ \A id \in DOMAIN ParsedListTree.items : Cardinality(ItemStylesIn(id)) <= 1) =>
        /\ Len(ListNodesFrom(0)) = Len(ParentsFrom(ParsedListTree.root))
        /\ \A k \in 1..Len(ListNodesFrom(0)) :
              ItemStylesIn(ParentsFrom(ParsedListTree.root)[k]) # {} =>
                 (script_tree.node_lookup[ListNodesFrom(0)[k]].kind.ordered
                    <=> ItemStylesIn(ParentsFrom(ParsedListTree.root)[k]) = {"Ordered"})

====
